---- MODULE Spec2Model ----
(***************************************************************************)
(* Model of dyndnsr53: the DynDNS update handler of pkg/server, the        *)
(* Route53 provider of pkg/providers/route53 and the serve command.        *)
(*                                                                         *)
(* A Go string is modelled as the sequence of its bytes (0..255).  String  *)
(* literals of the source are written Str(<<"u","s","e","r">>).            *)
(***************************************************************************)
EXTENDS Integers, Sequences, FiniteSets, TLC

\* ------------------------------------------------------------------------
\* Bytes and strings
\* ------------------------------------------------------------------------

\* The printable ASCII characters, codes 32..126, in code order (the grave
\* accent, code 96, is spelled out: it cannot be written in a string).
AsciiTable ==
  <<
     " ", "!", "\"", "#", "$", "%", "&", "'", "(", ")", "*", "+", ",", "-", ".", "/",
     "0", "1", "2", "3", "4", "5", "6", "7", "8", "9", ":", ";", "<", "=", ">", "?",
     "@", "A", "B", "C", "D", "E", "F", "G", "H", "I", "J", "K", "L", "M", "N", "O",
     "P", "Q", "R", "S", "T", "U", "V", "W", "X", "Y", "Z", "[", "\\", "]", "^", "_",
     "BACKTICK", "a", "b", "c", "d", "e", "f", "g", "h", "i", "j", "k", "l", "m", "n", "o",
     "p", "q", "r", "s", "t", "u", "v", "w", "x", "y", "z", "{", "|", "}", "~"
  >>

\* The code of a printable character.
Ord(c) == 31 + (CHOOSE i \in 1..Len(AsciiTable) : AsciiTable[i] = c)

\* The byte string of a literal given as a sequence of characters.
Str(cs) == [i \in 1..Len(cs) |-> Ord(cs[i])]

LF == 10
CR == 13

RECURSIVE Filter(_, _)
\* The elements of s that are not in the set drop, in order.
Filter(s, drop) ==
  IF s = <<>> THEN <<>>
  ELSE IF Head(s) \in drop THEN Filter(Tail(s), drop)
       ELSE <<Head(s)>> \o Filter(Tail(s), drop)

\* strings.HasPrefix
HasPrefix(s, prefix) ==
  /\ Len(s) >= Len(prefix)
  /\ SubSeq(s, 1, Len(prefix)) = prefix

\* strings.HasSuffix
HasSuffix(s, suffix) ==
  /\ Len(s) >= Len(suffix)
  /\ SubSeq(s, Len(s) - Len(suffix) + 1, Len(s)) = suffix

\* strings.TrimPrefix: s without the prefix if it has it, else s.
TrimPrefix(s, prefix) ==
  IF HasPrefix(s, prefix) THEN SubSeq(s, Len(prefix) + 1, Len(s)) ELSE s

\* strings.TrimSuffix: s without the suffix if it has it, else s.
TrimSuffix(s, suffix) ==
  IF HasSuffix(s, suffix) THEN SubSeq(s, 1, Len(s) - Len(suffix)) ELSE s

\* The positions at which sub occurs in s.
Occurrences(s, sub) ==
  {i \in 1..(Len(s) - Len(sub) + 1) : SubSeq(s, i, i + Len(sub) - 1) = sub}

\* strings.Contains
Contains(s, sub) == Occurrences(s, sub) # {}

\* strings.Index, 1-based; 0 when sub does not occur.
Index(s, sub) ==
  IF Occurrences(s, sub) = {} THEN 0
  ELSE CHOOSE i \in Occurrences(s, sub) : \A j \in Occurrences(s, sub) : i <= j

RECURSIVE CountFrom(_, _, _)
\* The number of non-overlapping occurrences of sub in s from position i on.
CountFrom(s, sub, i) ==
  IF i + Len(sub) - 1 > Len(s) THEN 0
  ELSE IF SubSeq(s, i, i + Len(sub) - 1) = sub
       THEN 1 + CountFrom(s, sub, i + Len(sub))
       ELSE CountFrom(s, sub, i + 1)

\* strings.Count: non-overlapping occurrences; for an empty sub, the number
\* of bytes plus one (s is ASCII in this model).
Count(s, sub) == IF sub = <<>> THEN Len(s) + 1 ELSE CountFrom(s, sub, 1)

\* strings.SplitN(s, sep, 2) for a non-empty sep: s itself when sep does not
\* occur, else the part before the first sep and the whole rest.
SplitN2(s, sep) ==
  IF Index(s, sep) = 0 THEN <<s>>
  ELSE << SubSeq(s, 1, Index(s, sep) - 1),
          SubSeq(s, Index(s, sep) + Len(sep), Len(s)) >>

\* ------------------------------------------------------------------------
\* encoding/base64, StdEncoding.DecodeString
\* ------------------------------------------------------------------------

\* The standard base64 alphabet; a character's value is its position minus 1.
B64Alphabet ==
  Str(<<
     "A", "B", "C", "D", "E", "F", "G", "H", "I", "J", "K", "L", "M", "N", "O", "P",
     "Q", "R", "S", "T", "U", "V", "W", "X", "Y", "Z", "a", "b", "c", "d", "e", "f",
     "g", "h", "i", "j", "k", "l", "m", "n", "o", "p", "q", "r", "s", "t", "u", "v",
     "w", "x", "y", "z", "0", "1", "2", "3", "4", "5", "6", "7", "8", "9", "+", "/"
  >>)

B64Pad == Ord("=")

IsB64Char(b) == \E i \in 1..64 : B64Alphabet[i] = b

B64Val(b) == (CHOOSE i \in 1..64 : B64Alphabet[i] = b) - 1

\* The bytes of one decoded quantum of n (2..4) characters.
QuantumBytes(q, n) ==
  LET v == B64Val(q[1]) * 262144 + B64Val(q[2]) * 4096
           + (IF n >= 3 THEN B64Val(q[3]) * 64 ELSE 0)
           + (IF n >= 4 THEN B64Val(q[4]) ELSE 0)
  IN  SubSeq(<< v \div 65536, (v \div 256) % 256, v % 256 >>, 1, n - 1)

RECURSIVE DecodeQuanta(_)
\* Decodes the input four characters at a time.  Padding is required and
\* may only end the input; the unused low bits of a padded quantum are not
\* checked (the encoding is not Strict).
DecodeQuanta(in) ==
  IF in = <<>> THEN [err |-> FALSE, bytes |-> <<>>]
  ELSE IF Len(in) < 4 THEN [err |-> TRUE, bytes |-> <<>>]
  ELSE LET q == SubSeq(in, 1, 4)
           rest == SubSeq(in, 5, Len(in))
       IN  IF \A j \in 1..4 : IsB64Char(q[j])
           THEN LET r == DecodeQuanta(rest)
                IN  [err |-> r.err, bytes |-> QuantumBytes(q, 4) \o r.bytes]
           ELSE IF /\ IsB64Char(q[1]) /\ IsB64Char(q[2]) /\ IsB64Char(q[3])
                   /\ q[4] = B64Pad /\ rest = <<>>
           THEN [err |-> FALSE, bytes |-> QuantumBytes(q, 3)]
           ELSE IF /\ IsB64Char(q[1]) /\ IsB64Char(q[2])
                   /\ q[3] = B64Pad /\ q[4] = B64Pad /\ rest = <<>>
           THEN [err |-> FALSE, bytes |-> QuantumBytes(q, 2)]
           ELSE [err |-> TRUE, bytes |-> <<>>]

\* base64.StdEncoding.DecodeString: carriage returns and line feeds in the
\* input are skipped.  bytes is meaningful only when err is FALSE.
DecodeString(in) == DecodeQuanta(Filter(in, {CR, LF}))


RECURSIVE EncodeToString(_)
\* base64.StdEncoding.EncodeToString: three bytes to four characters, the
\* last group padded with "=".
EncodeToString(src) ==
  LET C(v) == B64Alphabet[v + 1]
  IN  IF src = <<>> THEN <<>>
      ELSE IF Len(src) = 1
      THEN << C(src[1] \div 4), C((src[1] % 4) * 16), B64Pad, B64Pad >>
      ELSE IF Len(src) = 2
      THEN << C(src[1] \div 4), C((src[1] % 4) * 16 + src[2] \div 16),
              C((src[2] % 16) * 4), B64Pad >>
      ELSE << C(src[1] \div 4), C((src[1] % 4) * 16 + src[2] \div 16),
              C((src[2] % 16) * 4 + src[3] \div 64), C(src[3] % 64) >>
           \o EncodeToString(SubSeq(src, 4, Len(src)))


\* ------------------------------------------------------------------------
\* pkg/server: constants
\* ------------------------------------------------------------------------

\* DynDNS return codes/messages
MsgGood == Str(<<"g", "o", "o", "d">>)
MsgNoChg == Str(<<"n", "o", "c", "h", "g">>)
MsgBadAuth == Str(<<"b", "a", "d", "a", "u", "t", "h">>)
MsgNotDonator == Str(<<"!", "d", "o", "n", "a", "t", "o", "r">>)
MsgNotFQDN == Str(<<"n", "o", "f", "q", "d", "n">>)
MsgNoHost == Str(<<"n", "o", "h", "o", "s", "t">>)
MsgNumHost == Str(<<"n", "u", "m", "h", "o", "s", "t">>)
MsgAbuse == Str(<<"a", "b", "u", "s", "e">>)
MsgBadAgent == Str(<<"b", "a", "d", "a", "g", "e", "n", "t">>)
MsgDNSErr == Str(<<"d", "n", "s", "e", "r", "r">>)
Msg911 == Str(<<"9", "1", "1">>)

\* Hardcoded credentials and user agent
validUser == Str(<<"u", "s", "e", "r">>)
validPassword == Str(<<"p", "a", "s", "s">>)
validUserAgent == Str(<<"d", "y", "n", "d", "n", "s", "r", "5", "3", "-", "c", "l", "i", "e", "n", "t">>)

\* net/http status codes
StatusOK == 200
StatusBadRequest == 400
StatusUnauthorized == 401
StatusMethodNotAllowed == 405
MethodGet == "GET"

\* Texts of the handler
BasicPrefix == Str(<<"B", "a", "s", "i", "c", " ">>)
Colon == Str(<<":">>)
Space == Str(<<" ">>)
TxtInvalidUserAgent == Str(<<"i", "n", "v", "a", "l", "i", "d", " ", "u", "s", "e", "r", " ", "a", "g", "e", "n", "t">>)
TxtMethodNotAllowed == Str(<<"m", "e", "t", "h", "o", "d", " ", "n", "o", "t", " ", "a", "l", "l", "o", "w", "e", "d">>)
TxtMissingAuthHeader == Str(<<"m", "i", "s", "s", "i", "n", "g", " ", "a", "u", "t", "h", "o", "r", "i", "z", "a", "t", "i", "o", "n", " ", "h", "e", "a", "d", "e", "r">>)
TxtInvalidBase64 == Str(<<"i", "n", "v", "a", "l", "i", "d", " ", "b", "a", "s", "e", "6", "4", " ", "i", "n", " ", "a", "u", "t", "h", " ", "h", "e", "a", "d", "e", "r">>)
TxtInvalidCredentials == Str(<<"i", "n", "v", "a", "l", "i", "d", " ", "c", "r", "e", "d", "e", "n", "t", "i", "a", "l", "s">>)
TxtMissingHostname == Str(<<"m", "i", "s", "s", "i", "n", "g", " ", "h", "o", "s", "t", "n", "a", "m", "e", " ", "p", "a", "r", "a", "m", "e", "t", "e", "r">>)
TxtMissingMyip == Str(<<"m", "i", "s", "s", "i", "n", "g", " ", "m", "y", "i", "p", " ", "p", "a", "r", "a", "m", "e", "t", "e", "r">>)
TxtProviderError == Str(<<"p", "r", "o", "v", "i", "d", "e", "r", " ", "e", "r", "r", "o", "r", ":", " ">>)
TxtNoProvider == Str(<<"n", "o", " ", "p", "r", "o", "v", "i", "d", "e", "r", " ", "c", "o", "n", "f", "i", "g", "u", "r", "e", "d">>)

\* ------------------------------------------------------------------------
\* Errors: a Go error is nil or carries its message
\* ------------------------------------------------------------------------

Nil == [isErr |-> FALSE, msg |-> <<>>]
Errorf(msg) == [isErr |-> TRUE, msg |-> msg]


\* ------------------------------------------------------------------------
\* pkg/providers/route53
\* ------------------------------------------------------------------------

Dot == Str(<<".">>)
TxtEmptyArgs == Str(<<"f", "q", "d", "n", " ", "a", "n", "d", " ", "i", "p", " ", "m", "u", "s", "t", " ", "n", "o", "t", " ", "b", "e", " ", "e", "m", "p", "t", "y">>)
TxtFQDN == Str(<<"F", "Q", "D", "N", " ">>)
TxtNotInZone == Str(<<" ", "d", "o", "e", "s", " ", "n", "o", "t", " ", "b", "e", "l", "o", "n", "g", " ", "t", "o", " ", "h", "o", "s", "t", "e", "d", " ", "z", "o", "n", "e", " ">>)
TxtContainsZone == Str(<<" ", "c", "o", "n", "t", "a", "i", "n", "s", " ", "z", "o", "n", "e", " ", "n", "a", "m", "e", " ">>)
TxtMultipleTimes == Str(<<" ", "m", "u", "l", "t", "i", "p", "l", "e", " ", "t", "i", "m", "e", "s">>)
TxtEmptyZoneID == Str(<<"z", "o", "n", "e", "I", "D", " ", "m", "u", "s", "t", " ", "n", "o", "t", " ", "b", "e", " ", "e", "m", "p", "t", "y">>)
TxtZoneLookupFailed == Str(<<"f", "a", "i", "l", "e", "d", " ", "t", "o", " ", "g", "e", "t", " ", "h", "o", "s", "t", "e", "d", " ", "z", "o", "n", "e", " ">>)
TxtWrap == Str(<<":", " ">>)

\* The TTL of the record UpdateRecord writes.
RecordTTL == 60

\* A zone check that compares the suffix without the label boundary.
validateFQDN_NoDot(p, fqdn) ==
  LET cleanFQDN == TrimSuffix(fqdn, Dot)
      cleanZone == TrimSuffix(p.zoneName, Dot)
  IN  IF ~HasSuffix(cleanFQDN, cleanZone)
      THEN Errorf(TxtFQDN \o fqdn \o TxtNotInZone \o p.zoneName)
      ELSE IF Count(cleanFQDN, cleanZone) > 1
      THEN Errorf(TxtFQDN \o fqdn \o TxtContainsZone \o p.zoneName
                  \o TxtMultipleTimes)
      ELSE Nil

\* A zone check that forgets the zone's own name.
validateFQDN_NoApex(p, fqdn) ==
  LET cleanFQDN == TrimSuffix(fqdn, Dot)
      cleanZone == TrimSuffix(p.zoneName, Dot)
  IN  IF ~HasSuffix(cleanFQDN, Dot \o cleanZone)
      THEN Errorf(TxtFQDN \o fqdn \o TxtNotInZone \o p.zoneName)
      ELSE IF Count(cleanFQDN, cleanZone) > 1
      THEN Errorf(TxtFQDN \o fqdn \o TxtContainsZone \o p.zoneName
                  \o TxtMultipleTimes)
      ELSE Nil

\* A zone check that compares the fqdn as given, trailing dot included.
validateFQDN_NoTrim(p, fqdn) ==
  LET cleanFQDN == fqdn
      cleanZone == TrimSuffix(p.zoneName, Dot)
  IN  IF ~HasSuffix(cleanFQDN, Dot \o cleanZone) /\ cleanFQDN # cleanZone
      THEN Errorf(TxtFQDN \o fqdn \o TxtNotInZone \o p.zoneName)
      ELSE IF Count(cleanFQDN, cleanZone) > 1
      THEN Errorf(TxtFQDN \o fqdn \o TxtContainsZone \o p.zoneName
                  \o TxtMultipleTimes)
      ELSE Nil

\* validateFQDN ensures the FQDN belongs to the configured hosted zone.
validateFQDN(p, fqdn) ==
  LET cleanFQDN == TrimSuffix(fqdn, Dot)
      cleanZone == TrimSuffix(p.zoneName, Dot)
  IN  IF ~HasSuffix(cleanFQDN, Dot \o cleanZone) /\ cleanFQDN # cleanZone
      THEN Errorf(TxtFQDN \o fqdn \o TxtNotInZone \o p.zoneName)
      ELSE IF Count(cleanFQDN, cleanZone) > 1
      THEN Errorf(TxtFQDN \o fqdn \o TxtContainsZone \o p.zoneName
                  \o TxtMultipleTimes)
      ELSE Nil

\* A change batch that creates the record instead of upserting it.
ChangeInput_Create(p, fqdn, ip) ==
  [ HostedZoneId |-> p.zoneID,
    Changes |-> << [ Action |-> "CREATE",
                     Name |-> fqdn,
                     Type |-> "A",
                     TTL |-> RecordTTL,
                     ResourceRecords |-> << ip >> ] >> ]

\* The ChangeResourceRecordSetsInput UpdateRecord builds.
ChangeInput(p, fqdn, ip) ==
  [ HostedZoneId |-> p.zoneID,
    Changes |-> << [ Action |-> "UPSERT",
                     Name |-> fqdn,
                     Type |-> "A",
                     TTL |-> RecordTTL,
                     ResourceRecords |-> << ip >> ] >> ]

\* An UpdateRecord that checks the zone before it checks for empty
\* arguments.
UpdateRecord_ValidateFirst(p, fqdn, ip, upstreamErr) ==
  IF validateFQDN(p, fqdn).isErr
  THEN [err |-> validateFQDN(p, fqdn), inputs |-> <<>>]
  ELSE IF fqdn = <<>> \/ ip = <<>>
  THEN [err |-> Errorf(TxtEmptyArgs), inputs |-> <<>>]
  ELSE [err |-> upstreamErr, inputs |-> << ChangeInput(p, fqdn, ip) >>]

\* An UpdateRecord that does not check the zone.
UpdateRecord_NoValidate(p, fqdn, ip, upstreamErr) ==
  IF fqdn = <<>> \/ ip = <<>>
  THEN [err |-> Errorf(TxtEmptyArgs), inputs |-> <<>>]
  ELSE [err |-> upstreamErr, inputs |-> << ChangeInput(p, fqdn, ip) >>]

\* Provider.UpdateRecord.  upstreamErr is the error the Route53 API returns
\* if the change is issued.  The result holds the error returned and the
\* inputs of the ChangeResourceRecordSets calls made.
UpdateRecord(p, fqdn, ip, upstreamErr) ==
  IF fqdn = <<>> \/ ip = <<>>
  THEN [err |-> Errorf(TxtEmptyArgs), inputs |-> <<>>]
  ELSE IF validateFQDN(p, fqdn).isErr
  THEN [err |-> validateFQDN(p, fqdn), inputs |-> <<>>]
  ELSE [err |-> upstreamErr, inputs |-> << ChangeInput(p, fqdn, ip) >>]

\* A constructor that keeps the zone's name as GetHostedZone gives it.
NewRoute53Provider_KeepDot(zoneID, lookup) ==
  IF zoneID = <<>>
  THEN [provider |-> [kind |-> "nil"], err |-> Errorf(TxtEmptyZoneID),
        lookups |-> 0]
  ELSE IF lookup.err.isErr
  THEN [provider |-> [kind |-> "nil"],
        err |-> Errorf(TxtZoneLookupFailed \o zoneID \o TxtWrap
                       \o lookup.err.msg),
        lookups |-> 1]
  ELSE [provider |-> [kind |-> "route53", zoneID |-> zoneID,
                      zoneName |-> lookup.Name],
        err |-> Nil, lookups |-> 1]

\* NewRoute53Provider.  lookup is the outcome of the GetHostedZone call, made
\* only for a non-empty zoneID: its error and the Name of the hosted zone.
NewRoute53Provider(zoneID, lookup) ==
  IF zoneID = <<>>
  THEN [provider |-> [kind |-> "nil"], err |-> Errorf(TxtEmptyZoneID),
        lookups |-> 0]
  ELSE IF lookup.err.isErr
  THEN [provider |-> [kind |-> "nil"],
        err |-> Errorf(TxtZoneLookupFailed \o zoneID \o TxtWrap
                       \o lookup.err.msg),
        lookups |-> 1]
  ELSE [provider |-> [kind |-> "route53", zoneID |-> zoneID,
                      zoneName |-> TrimSuffix(lookup.Name, Dot)],
        err |-> Nil, lookups |-> 1]

\* The record sets of the hosted zone after Route53 applied one change batch:
\* an UPSERT replaces the record set of the same name and type, if any.
\* Route53 keeps names fully qualified, so a name with and without its
\* trailing dot is the same record.
CanonicalName(name) == TrimSuffix(name, Dot) \o Dot

\* A backend that appends the values of a change to the record set it has.
ApplyChange_Append(records, change) ==
  { rr \in records : ~(/\ rr.Name = CanonicalName(change.Name)
                       /\ rr.Type = change.Type) }
  \cup { [ Name |-> CanonicalName(change.Name), Type |-> change.Type,
           TTL |-> change.TTL,
           ResourceRecords |-> old \o change.ResourceRecords ] :
         old \in { rr.ResourceRecords :
                     rr \in { x \in records :
                                /\ x.Name = CanonicalName(change.Name)
                                /\ x.Type = change.Type } }
                 \cup IF \E x \in records :
                           /\ x.Name = CanonicalName(change.Name)
                           /\ x.Type = change.Type
                      THEN {} ELSE { <<>> } }

ApplyChange(records, change) ==
  { rr \in records : ~(/\ rr.Name = CanonicalName(change.Name)
                       /\ rr.Type = change.Type) }
  \cup { [ Name |-> CanonicalName(change.Name), Type |-> change.Type,
           TTL |-> change.TTL, ResourceRecords |-> change.ResourceRecords ] }

ApplyInput(records, input) == ApplyChange(records, input.Changes[1])

\* ------------------------------------------------------------------------
\* pkg/server
\* ------------------------------------------------------------------------

\* NewServer creates a new server with the given provider.
NewServer(provider) == [provider |-> provider]

\* MockProvider.UpdateRecord (server_test.go): records the call and returns
\* the configured error.
MockUpdateRecord(m) ==
  [provider |-> [m EXCEPT !.updateCalled = TRUE], err |-> m.updateError]

\* url.Values.Get: the first value of the key, "" when the key is absent.
RECURSIVE QueryGet(_, _)
QueryGet(query, key) ==
  IF query = <<>> THEN <<>>
  ELSE IF Head(query)[1] = key THEN Head(query)[2]
  ELSE QueryGet(Tail(query), key)

LogKeys ==
  { "method", "user_agent", "username", "fqdn", "ip", "status_code",
    "response", "error_message" }

\* The fields of RequestLog tagged omitempty.
OmitEmpty == { "username", "fqdn", "ip", "error_message" }

LogField(reqLog, k) ==
  CASE k = "method" -> reqLog.Method
    [] k = "user_agent" -> reqLog.UserAgent
    [] k = "username" -> reqLog.Username
    [] k = "fqdn" -> reqLog.FQDN
    [] k = "ip" -> reqLog.IP
    [] k = "status_code" -> reqLog.StatusCode
    [] k = "response" -> reqLog.Response
    [] k = "error_message" -> reqLog.ErrorMessage

\* json.Marshal(reqLog): the JSON object's members.  An omitempty field that
\* is the empty string is left out.  Timestamp, remote address and duration
\* are not modelled.
Marshal(reqLog) ==
  [ k \in { k2 \in LogKeys :
              ~(k2 \in OmitEmpty /\ LogField(reqLog, k2) = <<>>) }
      |-> LogField(reqLog, k) ]

\* A logAndRespond that logs status 200 whatever it writes.
logAndRespond_Log200(reqLog, statusCode, message, errorMsg) ==
  [ logs |-> << Marshal([reqLog EXCEPT !.StatusCode = StatusOK,
                                       !.Response = message,
                                       !.ErrorMessage = errorMsg]) >>,
    w |-> [ headerWrites |->
              IF statusCode # StatusOK THEN << statusCode >> ELSE <<>>,
            body |-> message \o << LF >> ] ]

\* A logAndRespond that writes the message without the newline.
logAndRespond_NoNewline(reqLog, statusCode, message, errorMsg) ==
  [ logs |-> << Marshal([reqLog EXCEPT !.StatusCode = statusCode,
                                       !.Response = message,
                                       !.ErrorMessage = errorMsg]) >>,
    w |-> [ headerWrites |->
              IF statusCode # StatusOK THEN << statusCode >> ELSE <<>>,
            body |-> message ] ]

\* The logAndRespond closure: one log record, the status header unless the
\* status is 200, and the message as one line of the body.
logAndRespond(reqLog, statusCode, message, errorMsg) ==
  [ logs |-> << Marshal([reqLog EXCEPT !.StatusCode = statusCode,
                                       !.Response = message,
                                       !.ErrorMessage = errorMsg]) >>,
    w |-> [ headerWrites |->
              IF statusCode # StatusOK THEN << statusCode >> ELSE <<>>,
            body |-> message \o << LF >> ] ]

\* What a handler run did to the provider: the UpdateRecord calls it made,
\* the error the last call returned, the upstream inputs issued, and the
\* provider afterwards.
NoCall(srv) ==
  [calls |-> <<>>, ret |-> Nil, upstream |-> <<>>, provider |-> srv.provider]

\* A provider that takes the name it last updated for its zone.
receiver_Rebound(p, fqdn) == [p EXCEPT !.zoneName = TrimSuffix(fqdn, Dot)]

\* The Provider after p.UpdateRecord(fqdn, ip): UpdateRecord and
\* validateFQDN only read the fields of their receiver.
receiver(p, fqdn) == p

\* A provider call with its arguments in the wrong order.
ProviderCall_Swapped(srv, fqdn, ip, upstreamErr) ==
  IF srv.provider.kind = "route53"
  THEN LET u == UpdateRecord(srv.provider, ip, fqdn, upstreamErr)
       IN  [calls |-> << [fn |-> "UpdateRecord", fqdn |-> ip, ip |-> fqdn] >>,
            ret |-> u.err,
            upstream |-> u.inputs, provider |-> srv.provider]
  ELSE LET m == MockUpdateRecord(srv.provider)
       IN  [calls |-> << [fn |-> "UpdateRecord", fqdn |-> ip, ip |-> fqdn] >>,
            ret |-> m.err,
            upstream |-> <<>>, provider |-> m.provider]

\* A provider call that is made again when it failed.
ProviderCall_Retry(srv, fqdn, ip, upstreamErr) ==
  IF srv.provider.kind = "route53"
  THEN LET u == UpdateRecord(srv.provider, fqdn, ip, upstreamErr)
           call == [fn |-> "UpdateRecord", fqdn |-> fqdn, ip |-> ip]
       IN  [calls |-> IF u.err.isErr THEN << call, call >> ELSE << call >>,
            ret |-> u.err,
            upstream |-> IF u.err.isErr THEN u.inputs \o u.inputs
                         ELSE u.inputs,
            provider |-> receiver(srv.provider, fqdn)]
  ELSE LET m == MockUpdateRecord(srv.provider)
           call == [fn |-> "UpdateRecord", fqdn |-> fqdn, ip |-> ip]
       IN  [calls |-> IF m.err.isErr THEN << call, call >> ELSE << call >>,
            ret |-> m.err,
            upstream |-> <<>>, provider |-> m.provider]

\* s.provider.UpdateRecord(fqdn, ip) through the Provider interface.
ProviderCall(srv, fqdn, ip, upstreamErr) ==
  IF srv.provider.kind = "route53"
  THEN LET u == UpdateRecord(srv.provider, fqdn, ip, upstreamErr)
       IN  [calls |-> << [fn |-> "UpdateRecord", fqdn |-> fqdn, ip |-> ip] >>,
            ret |-> u.err,
            upstream |-> u.inputs,
            provider |-> receiver(srv.provider, fqdn)]
  ELSE LET m == MockUpdateRecord(srv.provider)
       IN  [calls |-> << [fn |-> "UpdateRecord", fqdn |-> fqdn, ip |-> ip] >>,
            ret |-> m.err,
            upstream |-> <<>>, provider |-> m.provider]

\* A User-Agent check that only rejects the empty header.
badUserAgent_EmptyOnly(ua) == ua = <<>>

\* The User-Agent check: the header must be non-empty and contain the client
\* token.
badUserAgent(ua) == ua = <<>> \/ ~Contains(ua, validUserAgent)

\* A method check that only rejects POST.
badMethod_PostOnly(method) == method = "POST"

\* The method check.
badMethod(method) == method # MethodGet

\* A Basic Auth check that does not compare the password.
checkBasicAuth_UserOnly(auth) ==
  LET payload == DecodeString(TrimPrefix(auth, BasicPrefix))
      parts == SplitN2(payload.bytes, Colon)
  IN  IF ~HasPrefix(auth, BasicPrefix)
      THEN [ok |-> FALSE, errorMsg |-> TxtMissingAuthHeader,
            username |-> <<>>]
      ELSE IF payload.err
      THEN [ok |-> FALSE, errorMsg |-> TxtInvalidBase64, username |-> <<>>]
      ELSE IF Len(parts) # 2 \/ parts[1] # validUser
      THEN [ok |-> FALSE, errorMsg |-> TxtInvalidCredentials,
            username |-> <<>>]
      ELSE [ok |-> TRUE, errorMsg |-> <<>>, username |-> parts[1]]

\* The Basic Auth check of the Authorization header: whether it passed, the
\* error message logged when it did not, the username when it did.
checkBasicAuth(auth) ==
  LET payload == DecodeString(TrimPrefix(auth, BasicPrefix))
      parts == SplitN2(payload.bytes, Colon)
  IN  IF ~HasPrefix(auth, BasicPrefix)
      THEN [ok |-> FALSE, errorMsg |-> TxtMissingAuthHeader,
            username |-> <<>>]
      ELSE IF payload.err
      THEN [ok |-> FALSE, errorMsg |-> TxtInvalidBase64, username |-> <<>>]
      ELSE IF \/ Len(parts) # 2
              \/ parts[1] # validUser
              \/ parts[2] # validPassword
      THEN [ok |-> FALSE, errorMsg |-> TxtInvalidCredentials,
            username |-> <<>>]
      ELSE [ok |-> TRUE, errorMsg |-> <<>>, username |-> parts[1]]

\* A parameter check that looks at myip first.
checkParams_IpFirst(fqdn, ip) ==
  IF ip = <<>>
  THEN [ok |-> FALSE, message |-> MsgDNSErr, errorMsg |-> TxtMissingMyip]
  ELSE IF fqdn = <<>>
  THEN [ok |-> FALSE, message |-> MsgNotFQDN, errorMsg |-> TxtMissingHostname]
  ELSE [ok |-> TRUE, message |-> <<>>, errorMsg |-> <<>>]

\* A parameter check that forgets myip.
checkParams_NoIp(fqdn, ip) ==
  IF fqdn = <<>>
  THEN [ok |-> FALSE, message |-> MsgNotFQDN, errorMsg |-> TxtMissingHostname]
  ELSE [ok |-> TRUE, message |-> <<>>, errorMsg |-> <<>>]

\* A parameter check that forgets hostname.
checkParams_NoHostname(fqdn, ip) ==
  IF ip = <<>>
  THEN [ok |-> FALSE, message |-> MsgDNSErr, errorMsg |-> TxtMissingMyip]
  ELSE [ok |-> TRUE, message |-> <<>>, errorMsg |-> <<>>]

\* The check of the query parameters: hostname first, then myip.
checkParams(fqdn, ip) ==
  IF fqdn = <<>>
  THEN [ok |-> FALSE, message |-> MsgNotFQDN, errorMsg |-> TxtMissingHostname]
  ELSE IF ip = <<>>
  THEN [ok |-> FALSE, message |-> MsgDNSErr, errorMsg |-> TxtMissingMyip]
  ELSE [ok |-> TRUE, message |-> <<>>, errorMsg |-> <<>>]

\* Whether the server has a provider.
hasProvider(srv) == srv.provider.kind # "nil"

\* A provider failure answered with the provider's error text.
providerFailure_Leak(err) ==
  [ message |-> MsgDNSErr \o Space \o err.msg,
    errorMsg |-> TxtProviderError \o err.msg ]

\* The response message and the logged error message after a provider
\* error.
providerFailure(err) ==
  [message |-> MsgDNSErr, errorMsg |-> TxtProviderError \o err.msg]

\* A success message without the address.
goodMessage_NoIp(ip) == MsgGood

\* A success message with the code for an unchanged address.
goodMessage_NoChg(ip) == MsgNoChg \o Space \o ip

\* The response message of a successful update.
goodMessage(ip) == MsgGood \o Space \o ip

\* Two responses written one after the other on the same ResponseWriter:
\* what a handler does that goes on after it has answered.
andThen(first, rest) ==
  [ logs |-> first.logs \o rest.logs,
    w |-> [ headerWrites |-> first.w.headerWrites \o rest.w.headerWrites,
            body |-> first.w.body \o rest.w.body ],
    calls |-> first.calls \o rest.calls,
    ret |-> IF rest.calls = <<>> THEN first.ret ELSE rest.ret,
    upstream |-> first.upstream \o rest.upstream,
    provider |-> rest.provider,
    path |-> SubSeq(first.path, 1, Len(first.path) - 1) \o rest.path ]

\* A handler whose failure branches lack their return statement.
return_FallThrough(response, rest) == andThen(response, rest)

\* The return statement after a response: the rest of the handler does not
\* run.
return(response, rest) == response

\* The handler has passed a check and stands at the next position.
enter(position, rest) == [rest EXCEPT !.path = << position >> \o @]

\* logAndRespond called by the handler, which then stands at its end.
respond(reqLog, statusCode, message, errorMsg) ==
  logAndRespond(reqLog, statusCode, message, errorMsg)
    @@ [path |-> << "Responded" >>]

\* A RequestLog that holds the query parameters from the start.
newRequestLog_WithParams(r) ==
  [ Method |-> r.Method, UserAgent |-> r.UserAgent,
    Username |-> <<>>, FQDN |-> QueryGet(r.Query, "hostname"),
    IP |-> QueryGet(r.Query, "myip"),
    StatusCode |-> 0, Response |-> <<>>, ErrorMessage |-> <<>> ]

\* The RequestLog the handler creates for its request.
newRequestLog(r) ==
  [ Method |-> r.Method, UserAgent |-> r.UserAgent,
    Username |-> <<>>, FQDN |-> <<>>, IP |-> <<>>,
    StatusCode |-> 0, Response |-> <<>>, ErrorMessage |-> <<>> ]

\* A handler that checks the authorization before the method.
dynDNSUpdateHandler_AuthFirst(srv, r, upstreamErr) ==
  LET reqLog == newRequestLog(r)
      ua == r.UserAgent
      auth == checkBasicAuth(r.Authorization)
      fqdn == QueryGet(r.Query, "hostname")
      ip == QueryGet(r.Query, "myip")
      reqLog2 == [reqLog EXCEPT !.Username = auth.username,
                                !.FQDN = fqdn, !.IP = ip]
      params == checkParams(fqdn, ip)
      update ==
        IF hasProvider(srv)
        THEN enter("ProviderInvoked",
               LET c == ProviderCall(srv, fqdn, ip, upstreamErr)
                   good == respond(reqLog2, StatusOK, goodMessage(ip), <<>>)
                             @@ c
               IN  IF c.ret.isErr
                   THEN return(respond(reqLog2, StatusOK,
                                       providerFailure(c.ret).message,
                                       providerFailure(c.ret).errorMsg) @@ c,
                               good)
                   ELSE good)
        ELSE respond(reqLog2, StatusOK, goodMessage(ip), TxtNoProvider)
               @@ NoCall(srv)
      extract ==
        IF ~params.ok
        THEN return(respond(reqLog2, StatusOK, params.message,
                            params.errorMsg) @@ NoCall(srv),
                    enter("ParamsExtracted", update))
        ELSE enter("ParamsExtracted", update)
      method ==
        IF badMethod(r.Method)
        THEN return(respond(reqLog, StatusMethodNotAllowed, MsgBadAgent,
                            TxtMethodNotAllowed) @@ NoCall(srv),
                    enter("MethodChecked", extract))
        ELSE enter("MethodChecked", extract)
      authenticate ==
        IF ~auth.ok
        THEN return(respond(reqLog, StatusUnauthorized, MsgBadAuth,
                            auth.errorMsg) @@ NoCall(srv),
                    enter("Authenticated", method))
        ELSE enter("Authenticated", method)
  IN
  enter("Start",
    IF badUserAgent(ua)
    THEN return(respond(reqLog, StatusBadRequest, MsgBadAgent,
                        TxtInvalidUserAgent) @@ NoCall(srv),
                enter("UserAgentChecked", authenticate))
    ELSE enter("UserAgentChecked", authenticate))

\* Server.dynDNSUpdateHandler for request r.
dynDNSUpdateHandler(srv, r, upstreamErr) ==
  LET reqLog == newRequestLog(r)
      ua == r.UserAgent
      auth == checkBasicAuth(r.Authorization)
      fqdn == QueryGet(r.Query, "hostname")
      ip == QueryGet(r.Query, "myip")
      reqLog2 == [reqLog EXCEPT !.Username = auth.username,
                                !.FQDN = fqdn, !.IP = ip]
      params == checkParams(fqdn, ip)
      update ==
        IF hasProvider(srv)
        THEN enter("ProviderInvoked",
               LET c == ProviderCall(srv, fqdn, ip, upstreamErr)
                   good == respond(reqLog2, StatusOK, goodMessage(ip), <<>>)
                             @@ c
               IN  IF c.ret.isErr
                   THEN return(respond(reqLog2, StatusOK,
                                       providerFailure(c.ret).message,
                                       providerFailure(c.ret).errorMsg) @@ c,
                               good)
                   ELSE good)
        ELSE respond(reqLog2, StatusOK, goodMessage(ip), TxtNoProvider)
               @@ NoCall(srv)
      extract ==
        IF ~params.ok
        THEN return(respond(reqLog2, StatusOK, params.message,
                            params.errorMsg) @@ NoCall(srv),
                    enter("ParamsExtracted", update))
        ELSE enter("ParamsExtracted", update)
      authenticate ==
        IF ~auth.ok
        THEN return(respond(reqLog, StatusUnauthorized, MsgBadAuth,
                            auth.errorMsg) @@ NoCall(srv),
                    enter("Authenticated", extract))
        ELSE enter("Authenticated", extract)
      method ==
        IF badMethod(r.Method)
        THEN return(respond(reqLog, StatusMethodNotAllowed, MsgBadAgent,
                            TxtMethodNotAllowed) @@ NoCall(srv),
                    enter("MethodChecked", authenticate))
        ELSE enter("MethodChecked", authenticate)
  IN
  enter("Start",
    IF badUserAgent(ua)
    THEN return(respond(reqLog, StatusBadRequest, MsgBadAgent,
                        TxtInvalidUserAgent) @@ NoCall(srv),
                enter("UserAgentChecked", method))
    ELSE enter("UserAgentChecked", method))

\* ------------------------------------------------------------------------
\* Inputs
\* ------------------------------------------------------------------------

\* The longest padding put before and after the client token of a
\* User-Agent header.
MaxPad == 1

\* The longest generated fqdn given to the provider directly.
MaxFqdnLen == 5

RECURSIVE SeqsUpTo(_, _)
\* The sequences over alphabet of length at most n.
SeqsUpTo(alphabet, n) ==
  IF n = 0 THEN { <<>> }
  ELSE LET shorter == SeqsUpTo(alphabet, n - 1)
       IN  shorter \cup { <<a>> \o t : a \in alphabet, t \in shorter }

Pads == SeqsUpTo({ Ord("/") }, MaxPad)

\* User-Agent headers: absent, the client token inside padding, the token
\* cut short, the token in another case, another client.
UserAgents ==
  { pre \o validUserAgent \o post : pre \in Pads, post \in Pads }
  \cup { pre \o SubSeq(validUserAgent, 1, Len(validUserAgent) - 1) :
           pre \in Pads }
  \cup { <<>>, Str(<<"D", "y", "n", "d", "n", "s", "r", "5", "3", "-", "C", "l", "i", "e", "n", "t">>), Str(<<"c", "u", "r", "l", "/", "8">>) }

Methods == { "GET", "POST", "get" }

\* The Authorization header of the tests for a "user:password" payload.
BasicAuth(payload) == BasicPrefix \o EncodeToString(payload)

\* Authorization headers: absent; the valid pair; other schemes and
\* spellings of the scheme; no payload; characters outside the alphabet;
\* wrong padding; payloads "user" (no colon), "bad:creds", "user:passx",
\* "user:", ":pass", "user:pass:" and "user:Pass".
Authorizations ==
  { <<>>,
    BasicAuth(Str(<<"u", "s", "e", "r", ":", "p", "a", "s", "s">>)),
    Str(<<"B", "e", "a", "r", "e", "r", " ">>)
      \o EncodeToString(Str(<<"u", "s", "e", "r", ":", "p", "a", "s", "s">>)),
    Str(<<"b", "a", "s", "i", "c", " ">>)
      \o EncodeToString(Str(<<"u", "s", "e", "r", ":", "p", "a", "s", "s">>)),
    EncodeToString(Str(<<"u", "s", "e", "r", ":", "p", "a", "s", "s">>)),
    BasicPrefix,
    BasicPrefix \o Str(<<"!", "!", "!", "!">>),
    BasicAuth(Str(<<"u", "s", "e", "r", ":", "p", "a", "s", "s">>))
      \o Str(<<"=">>),
    BasicPrefix
      \o Str(<<"d", "X", "N", "l", "c", "j", "p", "w", "Y", "X", "N">>),
    BasicAuth(Str(<<"u", "s", "e", "r">>)),
    BasicAuth(Str(<<"b", "a", "d", ":", "c", "r", "e", "d", "s">>)),
    BasicAuth(Str(<<"u", "s", "e", "r", ":", "p", "a", "s", "s", "x">>)),
    BasicAuth(Str(<<"u", "s", "e", "r", ":">>)),
    BasicAuth(Str(<<":", "p", "a", "s", "s">>)),
    BasicAuth(Str(<<"u", "s", "e", "r", ":", "p", "a", "s", "s", ":">>)),
    BasicAuth(Str(<<"u", "s", "e", "r", ":", "P", "a", "s", "s">>)) }

\* The zone the served provider is bound to, as GetHostedZone names it.
ServedZone == Str(<<"b", "l", "a", "h", "o", "n", "g", "a", ".", "m", "e", ".">>)

HostInZone == Str(<<"h", "o", "m", "e", ".", "b", "l", "a", "h", "o", "n", "g", "a", ".", "m", "e">>)
HostOutOfZone == Str(<<"h", "o", "m", "e", ".", "e", "x", "a", "m", "p", "l", "e", ".", "c", "o", "m">>)
IP1 == Str(<<"1", ".", "2", ".", "3", ".", "4">>)
IP2 == Str(<<"5", ".", "6", ".", "7", ".", "8">>)

Hostnames == { <<>>, HostInZone, HostOutOfZone }
IPs == { <<>>, IP1, IP2 }

\* Query strings as url.Values sees them: hostname and myip each absent or
\* present with a value, and one query that repeats both keys.
Queries ==
  { h \o i : h \in { <<>> } \cup { << <<"hostname", v>> >> : v \in Hostnames },
             i \in { <<>> } \cup { << <<"myip", v>> >> : v \in IPs } }
  \cup { << <<"hostname", HostOutOfZone>>, <<"myip", IP2>>,
            <<"hostname", HostInZone>>, <<"myip", IP1>> >> }

Requests ==
  [ Method : Methods, UserAgent : UserAgents,
    Authorization : Authorizations, Query : Queries ]

NoRequest ==
  [ Method |-> "", UserAgent |-> <<>>, Authorization |-> <<>>,
    Query |-> <<>> ]

\* Errors of the AWS SDK and of a mock provider.
UpstreamErr == Errorf(Str(<<"A", "c", "c", "e", "s", "s", "D", "e", "n", "i", "e", "d">>))
LookupErr == Errorf(Str(<<"N", "o", "S", "u", "c", "h", "H", "o", "s", "t", "e", "d", "Z", "o", "n", "e">>))
ConfigErr == Errorf(Str(<<"n", "o", " ", "c", "r", "e", "d", "e", "n", "t", "i", "a", "l", "s">>))
ListenErr == Errorf(Str(<<"a", "d", "d", "r", "e", "s", "s", " ", "a", "l", "r", "e", "a", "d", "y", " ", "i", "n", " ", "u", "s", "e">>))
MockErr == Errorf(Str(<<"m", "o", "c", "k", " ", "f", "a", "i", "l", "u", "r", "e">>))

ZoneIDs == { <<>>, Str(<<"Z", "1", "2", "3", "4", "5", "6", "7", "8", "9", "0">>) }
ProviderTypes == { "route53", "none", "", "cloudflare" }
Lookups == { [err |-> Nil, Name |-> ServedZone],
             [err |-> LookupErr, Name |-> <<>>] }


\* Hosted zone names for the provider called directly: the zone of the
\* tests, a one-label zone, a two-label zone and a zone of two equal labels
\* over the alphabet of the generated fqdns; each as GetHostedZone names it,
\* with the trailing dot, and without.
DirectZones ==
  { Str(<<"b", "l", "a", "h", "o", "n", "g", "a", ".", "m", "e", ".">>), Str(<<"b", "l", "a", "h", "o", "n", "g", "a", ".", "m", "e">>), Str(<<"a", ".">>), Str(<<"a">>), Str(<<"b", ".", "a", ".">>),
    Str(<<"a", ".", "a", ".">>) }

\* The fqdns given to the provider directly: those of the tests, a name
\* that ends with the zone name without a label boundary, and every string
\* over "a", "b", "." up to MaxFqdnLen.
DirectFQDNs ==
  { Str(<<"h", "o", "m", "e", ".", "b", "l", "a", "h", "o", "n", "g", "a", ".", "m", "e">>), Str(<<"h", "o", "m", "e", ".", "b", "l", "a", "h", "o", "n", "g", "a", ".", "m", "e", ".">>), Str(<<"b", "l", "a", "h", "o", "n", "g", "a", ".", "m", "e">>),
    Str(<<"b", "l", "a", "h", "o", "n", "g", "a", ".", "m", "e", ".">>), Str(<<"h", "o", "m", "e", ".", "e", "x", "a", "m", "p", "l", "e", ".", "c", "o", "m">>),
    Str(<<"h", "o", "m", "e", ".", "b", "l", "a", "h", "o", "n", "g", "a", ".", "m", "e", ".", "b", "l", "a", "h", "o", "n", "g", "a", ".", "m", "e">>), Str(<<"a", "p", "i", ".", "v", "1", ".", "h", "o", "m", "e", ".", "b", "l", "a", "h", "o", "n", "g", "a", ".", "m", "e">>),
    Str(<<"x", "b", "l", "a", "h", "o", "n", "g", "a", ".", "m", "e">>), Str(<<"t", "e", "s", "t", ".", "e", "x", "a", "m", "p", "l", "e", ".", "c", "o", "m">>) }
  \cup SeqsUpTo({ Ord("a"), Ord("b"), Ord(".") }, MaxFqdnLen)

DirectIPs == { <<>>, IP1 }

\* What GetHostedZone answers the provider's constructor called directly.
DirectLookups ==
  { [err |-> LookupErr, Name |-> <<>>] }
  \cup { [err |-> Nil, Name |-> name] : name \in DirectZones }

\* ------------------------------------------------------------------------
\* State
\* ------------------------------------------------------------------------

VARIABLES
  pc,        \* "start", "serving", "responded", "exited"; for direct
             \* one request alone "handling"; for direct
             \* provider calls "new", "failed", "provider", "validated",
             \* "updated", "compared"
  s,         \* the Server: its provider
  started,   \* whether StartServer was called
  stderr,    \* what the serve command wrote to stderr before exiting
  records,   \* the record sets of the hosted zone at Route53
  req,       \* the request being answered
  w,         \* the response written for req
  logs,      \* the request log records emitted for req
  calls,     \* the provider calls made for req, or the direct call
  ret,       \* the error the last provider call returned
  upstream,  \* the ChangeResourceRecordSets inputs issued by those calls
  path,      \* the positions the handler went through for req
  before,    \* the record sets of the zone when req arrived
  inflight   \* the handlers that run side by side, each with its request,
             \* its position and what it has written

vars ==
  << pc, s, started, stderr, records, req, w, logs, calls, ret, upstream,
     path, before, inflight >>

NoProvider == [kind |-> "nil"]

NoResponse == [headerWrites |-> <<>>, body |-> <<>>]

\* The status a client sees: net/http sends 200 when the handler writes the
\* body without calling WriteHeader.
StatusCode(rw) ==
  IF rw.headerWrites = <<>> THEN StatusOK ELSE rw.headerWrites[1]

Idle ==
  /\ req = NoRequest
  /\ w = NoResponse
  /\ logs = <<>>
  /\ calls = <<>>
  /\ ret = Nil
  /\ upstream = <<>>
  /\ path = <<>>
  /\ before = records
  /\ inflight = <<>>

Init ==
  /\ pc = "start"
  /\ s = NewServer(NoProvider)
  /\ started = FALSE
  /\ stderr = ""
  /\ records = {}
  /\ Idle

\* ------------------------------------------------------------------------
\* cmd/serve.go
\* ------------------------------------------------------------------------

\* A provider selection that takes an unknown provider type for none.
SelectProvider_DefaultNone(providerType, zoneID, cfgErr, lookup) ==
  IF providerType = "route53"
  THEN IF zoneID = <<>>
       THEN [exit |-> TRUE, provider |-> NoProvider,
             msg |-> "Error: --zone-id is required when using route53 provider"]
       ELSE IF cfgErr.isErr
       THEN [exit |-> TRUE, provider |-> NoProvider,
             msg |-> "Error loading AWS config"]
       ELSE IF NewRoute53Provider(zoneID, lookup).err.isErr
       THEN [exit |-> TRUE, provider |-> NoProvider,
             msg |-> "Error creating Route53 provider"]
       ELSE [exit |-> FALSE,
             provider |-> NewRoute53Provider(zoneID, lookup).provider,
             msg |-> ""]
  ELSE [exit |-> FALSE, provider |-> NoProvider, msg |-> ""]

\* The provider selection of serveCmd.Run: the provider, or the message
\* written to stderr before os.Exit(1).
SelectProvider(providerType, zoneID, cfgErr, lookup) ==
  IF providerType = "route53"
  THEN IF zoneID = <<>>
       THEN [exit |-> TRUE, provider |-> NoProvider,
             msg |-> "Error: --zone-id is required when using route53 provider"]
       ELSE IF cfgErr.isErr
       THEN [exit |-> TRUE, provider |-> NoProvider,
             msg |-> "Error loading AWS config"]
       ELSE IF NewRoute53Provider(zoneID, lookup).err.isErr
       THEN [exit |-> TRUE, provider |-> NoProvider,
             msg |-> "Error creating Route53 provider"]
       ELSE [exit |-> FALSE,
             provider |-> NewRoute53Provider(zoneID, lookup).provider,
             msg |-> ""]
  ELSE IF providerType \in { "none", "" }
  THEN [exit |-> FALSE, provider |-> NoProvider, msg |-> ""]
  ELSE [exit |-> TRUE, provider |-> NoProvider,
        msg |-> "Error: unsupported provider type"]

\* serveCmd.Run: select the provider, then create and start the server.
\* listenErr is what ListenAndServe returns at once, nil when it serves.
Run(providerType, zoneID, cfgErr, lookup, listenErr) ==
  /\ pc = "start"
  /\ LET sel == SelectProvider(providerType, zoneID, cfgErr, lookup)
     IN  IF sel.exit
         THEN /\ pc' = "exited"
              /\ stderr' = sel.msg
              /\ UNCHANGED << s, started >>
         ELSE /\ s' = NewServer(sel.provider)
              /\ started' = TRUE
              /\ IF listenErr.isErr
                 THEN pc' = "exited" /\ stderr' = "Server error"
                 ELSE pc' = "serving" /\ UNCHANGED stderr

\* The status of os.Exit in serveCmd.Run.
ExitFailure == 1

\* The exit statuses of a run of the command: none while it serves.
Exits(providerType, zoneID, cfgErr, lookup, listenErr) ==
  IF \/ SelectProvider(providerType, zoneID, cfgErr, lookup).exit
     \/ listenErr.isErr
  THEN << ExitFailure >>
  ELSE <<>>

Serve(providerType, zoneID, cfgErr, lookup, listenErr) ==
  /\ Run(providerType, zoneID, cfgErr, lookup, listenErr)
  /\ UNCHANGED << inflight, records, req, w, logs, calls, ret, upstream, path,
                  before >>

\* server_test.go: a server around a MockProvider, its handler called
\* directly.
TestServer(updateError) ==
  /\ pc = "start"
  /\ s' = NewServer([kind |-> "mock", updateCalled |-> FALSE,
                     updateError |-> updateError])
  /\ pc' = "serving"
  /\ UNCHANGED << inflight, started, stderr, records, req, w, logs, calls, ret,
                  upstream, path, before >>

\* ------------------------------------------------------------------------
\* Requests
\* ------------------------------------------------------------------------

RECURSIVE ApplyInputs(_, _)
ApplyInputs(rrs, inputs) ==
  IF inputs = <<>> THEN rrs
  ELSE ApplyInputs(ApplyInput(rrs, Head(inputs)), Tail(inputs))

\* One request handled from arrival to the response.  upstreamErr is what
\* Route53 answers if the provider issues a change; a change Route53
\* accepts is applied to the zone.
Handle(r, upstreamErr) ==
  /\ pc \in { "serving", "handling" }
  /\ \E h \in { dynDNSUpdateHandler(s, r, upstreamErr) } :
         /\ req' = r
         /\ w' = h.w
         /\ logs' = h.logs
         /\ calls' = h.calls
         /\ ret' = h.ret
         /\ upstream' = h.upstream
         /\ path' = h.path
         /\ s' = [s EXCEPT !.provider = h.provider]
         /\ records' = IF h.ret.isErr THEN records
                       ELSE ApplyInputs(records, h.upstream)
  /\ pc' = "responded"
  /\ before' = records
  /\ UNCHANGED << inflight, started, stderr >>

\* The response has been read and the request is gone; the server waits for
\* the next one.
Finish ==
  /\ pc = "responded"
  /\ pc' = "serving"
  /\ req' = NoRequest
  /\ w' = NoResponse
  /\ logs' = <<>>
  /\ calls' = <<>>
  /\ ret' = Nil
  /\ upstream' = <<>>
  /\ path' = <<>>
  /\ before' = records
  /\ UNCHANGED << inflight, s, started, stderr, records >>

\* The upstream answers a provider can meet: only a Route53 provider calls
\* Route53.
UpstreamAnswers(srv) ==
  IF srv.provider.kind = "route53" THEN { Nil, UpstreamErr } ELSE { Nil }

ServeRun ==
  /\ pc = "start"
  /\ \E providerType \in ProviderTypes, zoneID \in ZoneIDs,
        cfgErr \in { Nil, ConfigErr }, lookup \in Lookups,
        listenErr \in { Nil, ListenErr } :
       Serve(providerType, zoneID, cfgErr, lookup, listenErr)

TestRun ==
  /\ pc = "start"
  /\ \E updateError \in { Nil, MockErr } : TestServer(updateError)

HandleRequest ==
  /\ pc = "serving"
  /\ \E r \in Requests, upstreamErr \in UpstreamAnswers(s) :
       Handle(r, upstreamErr)

Next ==
  \/ ServeRun
  \/ TestRun
  \/ HandleRequest
  \/ Finish

Spec == Init /\ [][Next]_vars

\* ------------------------------------------------------------------------
\* The serve command alone
\* ------------------------------------------------------------------------

\* One run of the command, kept with its flags, with what the AWS SDK and
\* the listener answer, and with its exit status.
ServeCommand ==
  /\ pc = "start"
  /\ \E providerType \in ProviderTypes, zoneID \in ZoneIDs,
        cfgErr \in { Nil, ConfigErr }, lookup \in DirectLookups,
        listenErr \in { Nil, ListenErr } :
       /\ Run(providerType, zoneID, cfgErr, lookup, listenErr)
       /\ calls' = << [ fn |-> "serve", provider |-> providerType,
                        zoneID |-> zoneID, cfgErr |-> cfgErr,
                        lookup |-> lookup, listenErr |-> listenErr,
                        exit |-> Exits(providerType, zoneID, cfgErr, lookup,
                                       listenErr) ] >>
  /\ UNCHANGED << inflight, records, req, w, logs, ret, upstream, path, before >>

ServeSpec == Init /\ [][ServeCommand]_vars

\* ------------------------------------------------------------------------
\* One request from its arrival to the response
\* ------------------------------------------------------------------------

\* The servers that serve: around the provider of serveCmd.Run for the
\* served zone or around none, and around the mock providers of the tests.
Servers ==
  { NewServer(SelectProvider("route53", zoneID, Nil, lookup).provider) :
      zoneID \in ZoneIDs \ { <<>> },
      lookup \in { l \in Lookups : ~l.err.isErr } }
  \cup { NewServer(SelectProvider("none", <<>>, Nil, lookup).provider) :
           lookup \in Lookups }
  \cup { NewServer([kind |-> "mock", updateCalled |-> FALSE,
                    updateError |-> updateError]) :
           updateError \in { Nil, MockErr } }

HandlerInit ==
  /\ pc = "serving"
  /\ s \in Servers
  /\ started = TRUE
  /\ stderr = ""
  /\ records = {}
  /\ Idle

\* net/http hands a request to the handler.
Receive ==
  /\ pc = "serving"
  /\ \E r \in Requests : req' = r
  /\ pc' = "handling"
  /\ UNCHANGED << inflight, s, started, stderr, records, w, logs, calls, ret,
                  upstream, path, before >>

\* The handler runs to its end for the request it was given.
Respond ==
  /\ pc = "handling"
  /\ \E upstreamErr \in UpstreamAnswers(s) : Handle(req, upstreamErr)

HandlerNext ==
  \/ Receive
  \/ Respond

\* The handler's goroutine runs and the provider's call returns: a handler
\* that was given a request does not stay where it is for ever.  The only
\* steps that take pc from "handling" to "responded" are those of Respond.
HandlerSpec ==
  HandlerInit /\ [][HandlerNext]_vars
  /\ WF_pc(pc = "handling" /\ pc' = "responded")


\* ------------------------------------------------------------------------
\* One server, several requests at once
\* ------------------------------------------------------------------------

\* net/http runs the handler in one goroutine per connection.  The number
\* of handlers that run side by side.
MaxInFlight == 2

InFlight == 1..MaxInFlight

\* A request that passes every check.
GoodRequest(hostname, myip) ==
  [ Method |-> "GET", UserAgent |-> validUserAgent,
    Authorization |-> BasicAuth(validUser \o Colon \o validPassword),
    Query |-> << << "hostname", hostname >>, << "myip", myip >> >> ]

\* The requests that meet each other: two updates of one name, an update
\* of a name outside the zone, and requests that fail one check each.
InFlightRequests ==
  { GoodRequest(HostInZone, IP1),
    GoodRequest(HostInZone, IP2),
    GoodRequest(HostOutOfZone, IP1),
    [GoodRequest(HostInZone, IP1) EXCEPT !.UserAgent = <<>>],
    [GoodRequest(HostInZone, IP1) EXCEPT !.Method = "POST"],
    [GoodRequest(HostInZone, IP1) EXCEPT
       !.Authorization = BasicAuth(Str(<<"b", "a", "d", ":", "c", "r", "e", "d", "s">>))],
    [GoodRequest(HostInZone, IP1) EXCEPT
       !.Query = << << "hostname", HostInZone >> >>] }

\* A goroutine that has no request.
IdleHandler ==
  [ pos |-> "Idle", req |-> NoRequest, reqLog |-> newRequestLog(NoRequest),
    w |-> NoResponse, logs |-> <<>>, calls |-> <<>>, ret |-> Nil,
    upstream |-> <<>> ]

\* A handler whose RequestLog is one variable of the server, the one the
\* first goroutine uses.
ownLog_Shared(hs, i) == hs[1].reqLog

\* reqLog is declared in the handler's body: every invocation has its own.
ownLog(hs, i) == hs[i].reqLog

\* logAndRespond called by handler h for the record reqLog.
answer(h, reqLog, statusCode, message, errorMsg) ==
  [ h EXCEPT !.pos = "Responded",
             !.reqLog = reqLog,
             !.w = logAndRespond(reqLog, statusCode, message, errorMsg).w,
             !.logs = logAndRespond(reqLog, statusCode, message,
                                    errorMsg).logs ]

ConcurrentInit ==
  /\ pc = "serving"
  /\ s \in Servers
  /\ started = TRUE
  /\ stderr = ""
  /\ records = {}
  /\ req = NoRequest
  /\ w = NoResponse
  /\ logs = <<>>
  /\ calls = <<>>
  /\ ret = Nil
  /\ upstream = <<>>
  /\ path = <<>>
  /\ before = {}
  /\ inflight = [i \in InFlight |-> IdleHandler]

\* What a step of one handler leaves alone besides the server and the zone.
OneRequestUnchanged ==
  UNCHANGED << pc, started, stderr, req, w, logs, calls, ret, upstream,
               path, before >>

\* net/http hands a request to a new goroutine.
Accept ==
  /\ \E i \in InFlight :
       /\ inflight[i].pos = "Idle"
       /\ \E r \in InFlightRequests :
            inflight' = [inflight EXCEPT ![i] =
                           [IdleHandler EXCEPT !.pos = "Start", !.req = r,
                                               !.reqLog = newRequestLog(r)]]
  /\ UNCHANGED << s, records >>
  /\ OneRequestUnchanged

\* The User-Agent check.
CheckUserAgent ==
  /\ \E i \in InFlight :
       LET h == inflight[i]
       IN  /\ h.pos = "Start"
           /\ inflight' = [inflight EXCEPT ![i] =
                IF badUserAgent(h.req.UserAgent)
                THEN answer(h, ownLog(inflight, i), StatusBadRequest,
                            MsgBadAgent, TxtInvalidUserAgent)
                ELSE [h EXCEPT !.pos = "UserAgentChecked"]]
  /\ UNCHANGED << s, records >>
  /\ OneRequestUnchanged

\* The method check.
CheckMethod ==
  /\ \E i \in InFlight :
       LET h == inflight[i]
       IN  /\ h.pos = "UserAgentChecked"
           /\ inflight' = [inflight EXCEPT ![i] =
                IF badMethod(h.req.Method)
                THEN answer(h, ownLog(inflight, i), StatusMethodNotAllowed,
                            MsgBadAgent, TxtMethodNotAllowed)
                ELSE [h EXCEPT !.pos = "MethodChecked"]]
  /\ UNCHANGED << s, records >>
  /\ OneRequestUnchanged

\* The Basic Auth check; the username goes into the log record when it
\* passed.
CheckAuthorization ==
  /\ \E i \in InFlight :
       LET h == inflight[i]
           auth == checkBasicAuth(h.req.Authorization)
       IN  /\ h.pos = "MethodChecked"
           /\ inflight' = [inflight EXCEPT ![i] =
                IF ~auth.ok
                THEN answer(h, ownLog(inflight, i), StatusUnauthorized,
                            MsgBadAuth, auth.errorMsg)
                ELSE [h EXCEPT !.pos = "Authenticated",
                               !.reqLog = [ownLog(inflight, i) EXCEPT
                                             !.Username = auth.username]]]
  /\ UNCHANGED << s, records >>
  /\ OneRequestUnchanged

\* hostname and myip are read into the log record and checked.
ExtractParams ==
  /\ \E i \in InFlight :
       LET h == inflight[i]
           fqdn == QueryGet(h.req.Query, "hostname")
           ip == QueryGet(h.req.Query, "myip")
           reqLog == [ownLog(inflight, i) EXCEPT !.FQDN = fqdn, !.IP = ip]
           params == checkParams(fqdn, ip)
       IN  /\ h.pos = "Authenticated"
           /\ inflight' = [inflight EXCEPT ![i] =
                IF ~params.ok
                THEN answer(h, reqLog, StatusOK, params.message,
                            params.errorMsg)
                ELSE [h EXCEPT !.pos = "ParamsExtracted",
                               !.reqLog = reqLog]]
  /\ UNCHANGED << s, records >>
  /\ OneRequestUnchanged

\* The provider is called if there is one, and has returned; without a
\* provider the handler answers.
InvokeProvider ==
  /\ \E i \in InFlight :
       LET h == inflight[i]
           fqdn == QueryGet(h.req.Query, "hostname")
           ip == QueryGet(h.req.Query, "myip")
       IN  /\ h.pos = "ParamsExtracted"
           /\ IF hasProvider(s)
              THEN \E upstreamErr \in UpstreamAnswers(s) :
                     \E c \in { ProviderCall(s, fqdn, ip, upstreamErr) } :
                       /\ inflight' = [inflight EXCEPT ![i] =
                            [h EXCEPT !.pos = "ProviderInvoked",
                                      !.calls = c.calls, !.ret = c.ret,
                                      !.upstream = c.upstream]]
                       /\ s' = [s EXCEPT !.provider = c.provider]
                       /\ records' = IF c.ret.isErr THEN records
                                     ELSE ApplyInputs(records, c.upstream)
              ELSE /\ inflight' = [inflight EXCEPT ![i] =
                         answer(h, ownLog(inflight, i), StatusOK,
                                goodMessage(ip), TxtNoProvider)]
                   /\ UNCHANGED << s, records >>
  /\ OneRequestUnchanged

\* The handler answers what the provider returned.
AnswerProvider ==
  /\ \E i \in InFlight :
       LET h == inflight[i]
           ip == QueryGet(h.req.Query, "myip")
       IN  /\ h.pos = "ProviderInvoked"
           /\ inflight' = [inflight EXCEPT ![i] =
                IF h.ret.isErr
                THEN answer(h, ownLog(inflight, i), StatusOK,
                            providerFailure(h.ret).message,
                            providerFailure(h.ret).errorMsg)
                ELSE answer(h, ownLog(inflight, i), StatusOK,
                            goodMessage(ip), <<>>)]
  /\ UNCHANGED << s, records >>
  /\ OneRequestUnchanged

\* The handler has returned and its goroutine is gone.
Leave ==
  /\ \E i \in InFlight :
       /\ inflight[i].pos = "Responded"
       /\ inflight' = [inflight EXCEPT ![i] = IdleHandler]
  /\ UNCHANGED << s, records >>
  /\ OneRequestUnchanged

ConcurrentNext ==
  \/ Accept
  \/ CheckUserAgent
  \/ CheckMethod
  \/ CheckAuthorization
  \/ ExtractParams
  \/ InvokeProvider
  \/ AnswerProvider
  \/ Leave

ConcurrentSpec == ConcurrentInit /\ [][ConcurrentNext]_vars

\* ------------------------------------------------------------------------
\* The Route53 provider called directly
\* ------------------------------------------------------------------------

\* Nothing is constructed yet.
ProviderInit ==
  /\ pc = "new"
  /\ s = NewServer(NoProvider)
  /\ started = FALSE
  /\ stderr = ""
  /\ records = {}
  /\ Idle

\* NewRoute53Provider(ctx, cfg, zoneID) with the answer GetHostedZone gives
\* if it is asked; the call is kept with the number of lookups it issued.
CallNewRoute53Provider ==
  /\ pc = "new"
  /\ \E zoneID \in ZoneIDs, lookup \in DirectLookups :
       \E n \in { NewRoute53Provider(zoneID, lookup) } :
         /\ calls' = << [fn |-> "NewRoute53Provider", zoneID |-> zoneID,
                         lookup |-> lookup, lookups |-> n.lookups] >>
         /\ ret' = n.err
         /\ s' = NewServer(n.provider)
         /\ pc' = IF n.err.isErr THEN "failed" ELSE "provider"
  /\ UNCHANGED << inflight, started, stderr, records, req, w, logs, upstream, path,
                  before >>

\* p.validateFQDN(fqdn)
CallValidateFQDN ==
  /\ pc = "provider"
  /\ \E fqdn \in DirectFQDNs :
       /\ calls' = << [fn |-> "validateFQDN", fqdn |-> fqdn, ip |-> <<>>] >>
       /\ ret' = validateFQDN(s.provider, fqdn)
  /\ pc' = "validated"
  /\ UNCHANGED << inflight, s, started, stderr, records, req, w, logs, upstream,
                  path, before >>

\* p.UpdateRecord(fqdn, ip).  upstreamErr is what Route53 answers if the
\* change is issued; Route53 applies a change it accepts.
CallUpdateRecord ==
  /\ pc = "provider"
  /\ \E fqdn \in DirectFQDNs, ip \in DirectIPs,
        upstreamErr \in { Nil, UpstreamErr } :
       \E u \in { UpdateRecord(s.provider, fqdn, ip, upstreamErr) } :
         /\ calls' = << [fn |-> "UpdateRecord", fqdn |-> fqdn, ip |-> ip,
                          upstreamErr |-> upstreamErr] >>
         /\ ret' = u.err
         /\ upstream' = u.inputs
         /\ records' = IF upstreamErr.isErr THEN records
                       ELSE ApplyInputs(records, u.inputs)
  /\ pc' = "updated"
  /\ UNCHANGED << inflight, s, started, stderr, req, w, logs, path, before >>

\* TestValidateFQDN's table: validateFQDN of a name without and with a
\* trailing dot, on providers built as struct literals whose zoneName is
\* the zone's name without and with a trailing dot.
CallValidateFQDNVariants ==
  /\ pc = "provider"
  /\ \E fqdn \in { f \in DirectFQDNs : ~HasSuffix(f, Dot) } :
       LET zoneNames == << s.provider.zoneName, s.provider.zoneName \o Dot >>
           fqdns == << fqdn, fqdn \o Dot >>
           p(z) == [kind |-> "route53", zoneID |-> s.provider.zoneID,
                    zoneName |-> zoneNames[z]]
           call(z, f) == [fn |-> "validateFQDN", zoneName |-> zoneNames[z],
                          fqdn |-> fqdns[f],
                          err |-> validateFQDN(p(z), fqdns[f])]
       IN  /\ calls' = << call(1, 1), call(1, 2), call(2, 1), call(2, 2) >>
           /\ ret' = validateFQDN(p(1), fqdn)
  /\ pc' = "compared"
  /\ UNCHANGED << inflight, s, started, stderr, records, req, w, logs, upstream,
                  path, before >>

ProviderNext ==
  \/ CallNewRoute53Provider
  \/ CallValidateFQDN
  \/ CallUpdateRecord
  \/ CallValidateFQDNVariants

ProviderSpec == ProviderInit /\ [][ProviderNext]_vars


\* ------------------------------------------------------------------------
\* Properties: vocabulary
\* ------------------------------------------------------------------------

\* A request has been answered and its response is in w.
Responded == pc = "responded"

\* The response is the given status with the given code as its one line.
Answer(status, code) ==
  /\ StatusCode(w) = status
  /\ w.body = code \o << LF >>

\* The client token occurs somewhere in the User-Agent header.
TokenIn(ua) ==
  \E i \in 1..Len(ua) : \E j \in i..Len(ua) : SubSeq(ua, i, j) = validUserAgent

UserAgentPasses(r) == r.UserAgent # <<>> /\ TokenIn(r.UserAgent)

MethodPasses(r) == r.Method = "GET"

\* The kinds of authorization failure.
NotBasic(auth) ==
  Len(auth) < Len(BasicPrefix) \/ SubSeq(auth, 1, Len(BasicPrefix)) # BasicPrefix

Credentials(auth) == SubSeq(auth, Len(BasicPrefix) + 1, Len(auth))

NotBase64(auth) == DecodeString(Credentials(auth)).err

Payload(auth) == DecodeString(Credentials(auth)).bytes

ColonAt(payload) == { i \in 1..Len(payload) : payload[i] = Ord(":") }

NoColon(auth) == ColonAt(Payload(auth)) = {}

FirstColon(payload) ==
  CHOOSE i \in ColonAt(payload) : \A j \in ColonAt(payload) : i <= j

WrongPair(auth) ==
  LET payload == Payload(auth)
      c == FirstColon(payload)
  IN  \/ SubSeq(payload, 1, c - 1) # validUser
      \/ SubSeq(payload, c + 1, Len(payload)) # validPassword

AuthorizationFails(r) ==
  LET auth == r.Authorization
  IN  \/ auth = <<>>
      \/ NotBasic(auth)
      \/ NotBase64(auth)
      \/ NoColon(auth)
      \/ WrongPair(auth)

AuthorizationPasses(r) == ~AuthorizationFails(r)

\* The value of a query parameter: that of its first occurrence, empty when
\* the parameter is missing.
ParamAt(r, key) == { i \in 1..Len(r.Query) : r.Query[i][1] = key }

Param(r, key) ==
  IF ParamAt(r, key) = {} THEN <<>>
  ELSE r.Query[CHOOSE i \in ParamAt(r, key) :
                 \A j \in ParamAt(r, key) : i <= j][2]

ChecksPass(r) ==
  UserAgentPasses(r) /\ MethodPasses(r) /\ AuthorizationPasses(r)

Valid(r) ==
  ChecksPass(r) /\ Param(r, "hostname") # <<>> /\ Param(r, "myip") # <<>>


\* ------------------------------------------------------------------------
\* Properties of the handler
\* ------------------------------------------------------------------------

\* C1: a request whose User-Agent is empty or lacks the client token is
\* answered 400 badagent, whatever its method, Authorization and query.
C1_BadUserAgent ==
  Responded /\ ~UserAgentPasses(req) => Answer(400, MsgBadAgent)

\* A POST without hostname, with a foreign User-Agent and a valid
\* Authorization, answered 400 badagent.
C1_Witness ==
  /\ Responded
  /\ req.UserAgent = Str(<<"c", "u", "r", "l", "/", "8">>)
  /\ req.Method = "POST"
  /\ AuthorizationPasses(req)
  /\ Param(req, "hostname") = <<>>
  /\ Answer(400, MsgBadAgent)

C3_AnyNonGet ==
  Responded /\ req.Method # "GET" => Answer(405, MsgBadAgent)

\* C3 amended: every request with a non-GET method that passes the
\* User-Agent check is answered 405 badagent.
C3_NonGet ==
  Responded /\ UserAgentPasses(req) /\ req.Method # "GET"
  => Answer(405, MsgBadAgent)

\* A lower-case "get" with the client token and valid credentials, answered
\* 405 badagent.
C3_Witness ==
  /\ Responded
  /\ UserAgentPasses(req)
  /\ req.Method = "get"
  /\ AuthorizationPasses(req)
  /\ Answer(405, MsgBadAgent)

\* C4: past the User-Agent, method and authorization checks, a missing or
\* empty hostname is answered 200 nofqdn, with or without myip.
C4_NoHostname ==
  Responded /\ ChecksPass(req) /\ Param(req, "hostname") = <<>>
  => Answer(200, MsgNotFQDN)

\* An authorized request with neither hostname nor myip, answered 200
\* nofqdn.
C4_Witness ==
  /\ Responded
  /\ ChecksPass(req)
  /\ ParamAt(req, "hostname") = {}
  /\ Param(req, "myip") = <<>>
  /\ Answer(200, MsgNotFQDN)

C6_ProviderSuccess ==
  /\ Responded
  /\ Valid(req)
  /\ s.provider.kind # "nil"
  /\ ~ret.isErr
  => /\ calls = << [ fn |-> "UpdateRecord",
                     fqdn |-> Param(req, "hostname"),
                     ip |-> Param(req, "myip") ] >>
     /\ Answer(200, MsgGood \o Space \o Param(req, "myip"))

\* A valid request served through the Route53 provider, the change issued
\* and accepted.
C6_Witness ==
  /\ Responded
  /\ Valid(req)
  /\ s.provider.kind = "route53"
  /\ ~ret.isErr
  /\ Len(upstream) = 1
  /\ Param(req, "myip") = IP2
  /\ Answer(200, MsgGood \o Space \o IP2)

\* C7: on a server without provider a valid request is answered 200
\* "good <myip>", no provider is called and no record changes.
C7_NoProvider ==
  Responded /\ Valid(req) /\ s.provider.kind = "nil"
  => /\ Answer(200, MsgGood \o Space \o Param(req, "myip"))
     /\ calls = <<>>
     /\ upstream = <<>>
     /\ records = {}

\* A valid request on a server started with --provider none.
C7_Witness ==
  /\ Responded
  /\ started
  /\ Valid(req)
  /\ s.provider.kind = "nil"
  /\ Answer(200, MsgGood \o Space \o IP1)

\* C8: for a valid request on a server whose provider returns an error, the
\* answer is 200 with the body "dnserr" and a newline; the error's text is in
\* the log record's error message and not in the body.
C8_ProviderError ==
  /\ Responded
  /\ Valid(req)
  /\ s.provider.kind # "nil"
  /\ ret.isErr
  => /\ StatusCode(w) = 200
     /\ w.body = MsgDNSErr \o << LF >>
     /\ ~Contains(w.body, ret.msg)
     /\ Len(logs) = 1
     /\ Contains(logs[1]["error_message"], ret.msg)
     /\ logs[1]["response"] = MsgDNSErr

\* A valid request for a name in the zone, refused by Route53.
C8_Witness ==
  /\ Responded
  /\ Valid(req)
  /\ s.provider.kind = "route53"
  /\ Len(upstream) = 1
  /\ ret = UpstreamErr
  /\ w.body = MsgDNSErr \o << LF >>

\* C9: the provider is called only for a request that passed the
\* User-Agent, method and authorization checks with a hostname and a myip;
\* a request answered badagent, badauth, nofqdn, or dnserr for a missing
\* myip, never reaches it, and no call has an empty fqdn or ip.
C9_CallsOnlyWhenValid ==
  Responded
  => /\ calls # <<>> => Valid(req)
     /\ \A i \in 1..Len(calls) : calls[i].fqdn # <<>> /\ calls[i].ip # <<>>
     /\ \/ w.body \in { MsgBadAgent \o << LF >>, MsgBadAuth \o << LF >>,
                        MsgNotFQDN \o << LF >> }
        \/ w.body = MsgDNSErr \o << LF >> /\ Param(req, "myip") = <<>>
        => calls = <<>> /\ upstream = <<>>

\* A request without myip on a server with a mock provider: answered
\* dnserr, the provider not called.
C9_Witness ==
  /\ Responded
  /\ s.provider.kind = "mock"
  /\ ~s.provider.updateCalled
  /\ ChecksPass(req)
  /\ Param(req, "hostname") # <<>>
  /\ Param(req, "myip") = <<>>
  /\ w.body = MsgDNSErr \o << LF >>
  /\ calls = <<>>


\* ------------------------------------------------------------------------
\* Properties of the Route53 provider
\* ------------------------------------------------------------------------

\* A direct call of the provider has returned.
Returned == pc \in { "validated", "updated" }

\* A name without one trailing dot.
StripDot(name) ==
  IF name # <<>> /\ name[Len(name)] = Ord(".")
  THEN SubSeq(name, 1, Len(name) - 1)
  ELSE name

\* The zone the provider is bound to.
BoundZone == StripDot(s.provider.zoneName)

\* The name is the zone itself, or ends with a dot followed by the zone.
NameInZone(fqdn, zone) ==
  \/ StripDot(fqdn) = zone
  \/ \E k \in 1..Len(StripDot(fqdn)) :
       SubSeq(StripDot(fqdn), k, Len(StripDot(fqdn))) = << Ord(".") >> \o zone

\* C10: validateFQDN rejects every fqdn that, without its trailing dot, is
\* neither the zone's name nor ends with "." and the zone's name;
\* UpdateRecord then returns an error and issues no upstream change.
C10_OutOfZoneRejected ==
  Returned /\ ~NameInZone(calls[1].fqdn, BoundZone)
  => /\ ret.isErr
     /\ upstream = <<>>
     /\ records = {}

\* UpdateRecord of a name that ends with the zone's name without a label
\* boundary, with an address: refused, nothing issued.
C10_Witness ==
  /\ pc = "updated"
  /\ BoundZone = Str(<<"b", "l", "a", "h", "o", "n", "g", "a", ".", "m", "e">>)
  /\ calls[1].fqdn = Str(<<"x", "b", "l", "a", "h", "o", "n", "g", "a", ".", "m", "e">>)
  /\ calls[1].ip = IP1
  /\ ret.isErr
  /\ upstream = <<>>

\* The positions at which the zone's name occurs in a name.
ZoneAt(name, zone) ==
  { k \in 1..(Len(name) - Len(zone) + 1) :
      SubSeq(name, k, k + Len(zone) - 1) = zone }

\* The zone's name occurs twice in the name without the two occurrences
\* sharing a character.
TwiceApart(name, zone) ==
  \E i \in ZoneAt(name, zone), j \in ZoneAt(name, zone) : j >= i + Len(zone)

\* C11 as stated: validateFQDN accepts every fqdn that, without its trailing
\* dot, is the zone's name or ends with "." and the zone's name.
C11_InZoneAccepted ==
  pc = "validated" /\ NameInZone(calls[1].fqdn, BoundZone)
  => ~ret.isErr

\* C11: validateFQDN accepts every fqdn that, without its trailing dot, is
\* the zone's name or ends with "." and the zone's name, and in which the
\* zone's name occurs only once as a substring.
C11_InZoneOnceAccepted ==
  /\ pc = "validated"
  /\ NameInZone(calls[1].fqdn, BoundZone)
  /\ Cardinality(ZoneAt(StripDot(calls[1].fqdn), BoundZone)) = 1
  => ret = Nil

\* A subdomain three labels below the zone is accepted.
C11_Witness ==
  /\ pc = "validated"
  /\ BoundZone = Str(<<"b", "l", "a", "h", "o", "n", "g", "a", ".", "m", "e">>)
  /\ calls[1].fqdn = Str(<<"a", "p", "i", ".", "v", "1", ".", "h", "o", "m", "e", ".", "b", "l", "a", "h", "o", "n", "g", "a", ".", "m", "e">>)
  /\ ret = Nil

\* The zone's own name with a trailing dot is accepted.
C11_WitnessApex ==
  /\ pc = "validated"
  /\ BoundZone = Str(<<"b", "l", "a", "h", "o", "n", "g", "a", ".", "m", "e">>)
  /\ calls[1].fqdn = Str(<<"b", "l", "a", "h", "o", "n", "g", "a", ".", "m", "e", ".">>)
  /\ ret = Nil

\* C12 as stated: validateFQDN rejects every fqdn in which, without its
\* trailing dot, the zone's name occurs more than once as a substring.
C12_RepeatedZoneRejected ==
  /\ pc = "validated"
  /\ Cardinality(ZoneAt(StripDot(calls[1].fqdn), BoundZone)) > 1
  => ret.isErr

\* What the code does for C12: it rejects every fqdn in which the zone's
\* name occurs twice without overlap, in-zone suffix or not.
C12_TwiceApartRejected ==
  /\ pc = "validated"
  /\ TwiceApart(StripDot(calls[1].fqdn), BoundZone)
  => ret.isErr

\* The doubled name of the tests is rejected although it ends with "." and
\* the zone's name.
C12_WitnessDoubled ==
  /\ pc = "validated"
  /\ BoundZone = Str(<<"b", "l", "a", "h", "o", "n", "g", "a", ".", "m", "e">>)
  /\ calls[1].fqdn = Str(<<"h", "o", "m", "e", ".", "b", "l", "a", "h", "o", "n", "g", "a", ".", "m", "e", ".", "b", "l", "a", "h", "o", "n", "g", "a", ".", "m", "e">>)
  /\ NameInZone(calls[1].fqdn, BoundZone)
  /\ ret.isErr

\* C13: for an fqdn without a trailing dot, validateFQDN accepts or rejects
\* alike the fqdn and the fqdn with a dot appended, on a provider whose
\* zoneName has no trailing dot and on one whose zoneName has one.
C13_TrailingDotsIgnored ==
  pc = "compared"
  => /\ Len(calls) = 4
     /\ ~HasSuffix(calls[1].fqdn, Dot)
     /\ calls[2].fqdn = calls[1].fqdn \o Dot
     /\ calls[3].zoneName = calls[1].zoneName \o Dot
     /\ \A i \in 1..4 : /\ calls[i].fqdn \in { calls[1].fqdn, calls[2].fqdn }
                        /\ calls[i].zoneName
                             \in { calls[1].zoneName, calls[3].zoneName }
                        /\ calls[i].err.isErr = calls[1].err.isErr

\* A subdomain accepted in all four forms.
C13_Witness ==
  /\ pc = "compared"
  /\ calls[1].zoneName = Str(<<"b", "l", "a", "h", "o", "n", "g", "a", ".", "m", "e">>)
  /\ calls[1].fqdn = Str(<<"h", "o", "m", "e", ".", "b", "l", "a", "h", "o", "n", "g", "a", ".", "m", "e">>)
  /\ \A i \in 1..4 : calls[i].err = Nil

\* A foreign name rejected in all four forms.
C13_WitnessRejected ==
  /\ pc = "compared"
  /\ calls[1].zoneName = Str(<<"b", "l", "a", "h", "o", "n", "g", "a", ".", "m", "e">>)
  /\ calls[1].fqdn = Str(<<"h", "o", "m", "e", ".", "e", "x", "a", "m", "p", "l", "e", ".", "c", "o", "m">>)
  /\ \A i \in 1..4 : calls[i].err.isErr

\* C14: UpdateRecord with an empty fqdn or an empty ip returns the error of
\* the empty-argument check, whatever the zone check would say, and issues
\* no ChangeResourceRecordSets call.
C14_EmptyArgsRejected ==
  pc = "updated" /\ (calls[1].fqdn = <<>> \/ calls[1].ip = <<>>)
  => /\ ret = Errorf(TxtEmptyArgs)
     /\ upstream = <<>>
     /\ records = {}

\* An empty ip with an fqdn outside the zone: the empty-argument error, not
\* the zone error.
C14_Witness ==
  /\ pc = "updated"
  /\ calls[1].fqdn = Str(<<"h", "o", "m", "e", ".", "e", "x", "a", "m", "p", "l", "e", ".", "c", "o", "m">>)
  /\ calls[1].ip = <<>>
  /\ ~NameInZone(calls[1].fqdn, BoundZone)
  /\ ret = Errorf(TxtEmptyArgs)
  /\ upstream = <<>>

\* An empty fqdn with an ip.
C14_WitnessNoFqdn ==
  /\ pc = "updated"
  /\ calls[1].fqdn = <<>>
  /\ calls[1].ip = IP1
  /\ ret = Errorf(TxtEmptyArgs)
  /\ upstream = <<>>

\* NewRoute53Provider has returned.
Constructed ==
  /\ pc \in { "failed", "provider" }
  /\ Len(calls) = 1
  /\ calls[1].fn = "NewRoute53Provider"

\* C20: NewRoute53Provider returns an error and no provider for an empty
\* zone identifier, without a hosted-zone lookup, and when the lookup fails;
\* otherwise it returns a provider whose zoneName is the looked-up name
\* without its trailing dot and whose zoneID is the identifier given.
C20_Constructor ==
  Constructed
  => /\ calls[1].zoneID = <<>>
          => ret.isErr /\ s.provider = NoProvider /\ calls[1].lookups = 0
     /\ calls[1].zoneID # <<>> /\ calls[1].lookup.err.isErr
          => ret.isErr /\ s.provider = NoProvider
     /\ calls[1].zoneID # <<>> /\ ~calls[1].lookup.err.isErr
          => /\ ret = Nil
             /\ s.provider.kind = "route53"
             /\ s.provider.zoneName = StripDot(calls[1].lookup.Name)
             /\ s.provider.zoneID = calls[1].zoneID
             /\ calls[1].lookups = 1

\* A provider for the zone GetHostedZone names "blahonga.me.".
C20_Witness ==
  /\ Constructed
  /\ calls[1].zoneID # <<>>
  /\ calls[1].lookup.Name = Str(<<"b", "l", "a", "h", "o", "n", "g", "a", ".", "m", "e", ".">>)
  /\ s.provider.zoneName = Str(<<"b", "l", "a", "h", "o", "n", "g", "a", ".", "m", "e">>)
  /\ ret = Nil

\* An empty zone identifier: an error, no provider, no lookup.
C20_WitnessEmpty ==
  /\ Constructed
  /\ calls[1].zoneID = <<>>
  /\ ret.isErr /\ s.provider = NoProvider /\ calls[1].lookups = 0

\* A failed lookup: an error and no provider.
C20_WitnessLookup ==
  /\ Constructed
  /\ calls[1].zoneID # <<>>
  /\ calls[1].lookup.err.isErr
  /\ ret.isErr /\ s.provider = NoProvider

\* The record sets a zone holds under the request's hostname.
RecordsFor(rrs, r) ==
  { rr \in rrs : rr.Name = StripDot(Param(r, "hostname")) \o << Ord(".") >> }

\* An A record with the request's myip as its one value.
HoldsAddress(rr, r) ==
  rr.Type = "A" /\ rr.ResourceRecords = << Param(r, "myip") >>

\* The provider was called and returned no error.
ProviderSucceeded == calls # <<>> /\ ret = Nil

\* The zone already was as an earlier successful request with the same
\* hostname and myip leaves it.
Repeated == \E rr \in RecordsFor(before, req) : HoldsAddress(rr, req)

C15_WitnessFirst ==
  /\ Responded
  /\ Valid(req)
  /\ s.provider.kind = "route53"
  /\ ProviderSucceeded
  /\ before = {}
  /\ Cardinality(records) = 1

\* C16: every run of the handler emits exactly one request log record, and
\* the record's status code and response are the status and the line the
\* HTTP response carries.
C16_OneLogRecord ==
  Responded
  => /\ Len(logs) = 1
     /\ logs[1]["status_code"] = StatusCode(w)
     /\ w.body = logs[1]["response"] \o << LF >>

\* A rejection: one record with status 401 and badauth, as the response.
C16_Witness ==
  /\ Responded
  /\ Len(logs) = 1
  /\ StatusCode(w) = StatusUnauthorized
  /\ logs[1]["status_code"] = StatusUnauthorized
  /\ logs[1]["response"] = MsgBadAuth

\* A provider failure: one record with status 200 and dnserr.
C16_WitnessFailure ==
  /\ Responded
  /\ ret.isErr
  /\ Len(logs) = 1
  /\ logs[1]["status_code"] = StatusOK
  /\ logs[1]["response"] = MsgDNSErr

\* A provider success and an answer without a provider: one record each.
C16_WitnessSuccess ==
  Responded /\ ProviderSucceeded /\ Len(logs) = 1
  /\ logs[1]["response"] = MsgGood \o Space \o IP1

C16_WitnessNoProvider ==
  Responded /\ Valid(req) /\ s.provider = NoProvider /\ Len(logs) = 1
  /\ logs[1]["response"] = MsgGood \o Space \o IP1

\* The line of the response body, without its newline.
Line == SubSeq(w.body, 1, Len(w.body) - 1)

\* The codes of the protocol the server keeps in reserve.
Reserved ==
  { MsgNoChg, MsgNotDonator, MsgNoHost, MsgNumHost, MsgAbuse, Msg911 }

C18_BodyIsCodeLine ==
  Responded
  => /\ \E code \in { MsgBadAgent, MsgBadAuth, MsgNotFQDN, MsgDNSErr,
                      MsgGood \o Space \o Param(req, "myip") } :
          w.body = code \o << LF >>
     /\ Len(w.body) >= Len(MsgGood) /\ SubSeq(w.body, 1, Len(MsgGood)) = MsgGood
          => w.body = MsgGood \o Space \o Param(req, "myip") \o << LF >>

\* A good response with the second address.
C18_Witness ==
  /\ Responded
  /\ Param(req, "myip") = IP2
  /\ w.body = MsgGood \o Space \o IP2 \o << LF >>

\* A rejection's body.
C18_WitnessRejected ==
  /\ Responded
  /\ w.body = MsgBadAgent \o << LF >>

\* The positions of the handler in their order.
Positions ==
  << "Start", "UserAgentChecked", "MethodChecked", "Authenticated",
     "ParamsExtracted", "ProviderInvoked" >>

\* The number of positions a request reaches before the handler responds:
\* one more for every check it passes, the last for a provider to call.
Reached(r) ==
  IF ~UserAgentPasses(r) THEN 1
  ELSE IF ~MethodPasses(r) THEN 2
  ELSE IF ~AuthorizationPasses(r) THEN 3
  ELSE IF ~Valid(r) THEN 4
  ELSE IF s.provider = NoProvider THEN 5
  ELSE 6

\* The newlines of the response body.
Newlines == { i \in 1..Len(w.body) : w.body[i] = LF }

\* C19: the handler answers every request, and has then written one
\* response: at most one status header, one body line, one log record; it
\* went through the positions up to the first check that failed and from
\* there straight to Responded.
C19_RespondsOnce ==
  /\ (pc = "handling") ~> Responded
  /\ [][pc = "handling" => Responded' /\ req' = req]_vars
  /\ [](Responded
         => /\ Len(w.headerWrites) <= 1
            /\ Newlines = { Len(w.body) }
            /\ Len(logs) = 1
            /\ path = SubSeq(Positions, 1, Reached(req))
                         \o << "Responded" >>)

\* An Authorization whose payload has no colon is answered 401.
C19_Witness ==
  /\ Responded
  /\ UserAgentPasses(req) /\ MethodPasses(req)
  /\ ~NotBasic(req.Authorization)
  /\ ~NotBase64(req.Authorization)
  /\ NoColon(req.Authorization)
  /\ Answer(StatusUnauthorized, MsgBadAuth)
  /\ path = << "Start", "UserAgentChecked", "MethodChecked", "Responded" >>

\* An Authorization with an empty payload is answered 401.
C19_WitnessEmptyPayload ==
  /\ Responded
  /\ req.Authorization = BasicPrefix
  /\ Answer(StatusUnauthorized, MsgBadAuth)

\* A request that passes every check and meets a provider goes through
\* every position.
C19_WitnessFullPath ==
  /\ Responded
  /\ path = Positions \o << "Responded" >>

\* ------------------------------------------------------------------------
\* Properties of the serve command
\* ------------------------------------------------------------------------

\* The command has run.
Ran == pc # "start" /\ Len(calls) = 1 /\ calls[1].fn = "serve"

\* The flags and the answers of the AWS SDK with which no provider can be
\* selected.
SelectionFails(c) ==
  \/ /\ c.provider = "route53"
     /\ \/ c.zoneID = <<>>
        \/ c.cfgErr.isErr
        \/ c.lookup.err.isErr
  \/ c.provider \notin { "route53", "none", "" }

\* C21: when the provider selection fails (route53 with an empty zone id, a
\* failed AWS config load or a failed NewRoute53Provider, or an unknown
\* provider type) the command writes an error, exits with status 1 and has
\* not started the server; a server that was started had its provider
\* selected.
C21_NoServerWithoutProvider ==
  Ran
  => /\ SelectionFails(calls[1])
          => /\ pc = "exited"
             /\ ~started
             /\ stderr # ""
             /\ calls[1].exit = << 1 >>
     /\ started => ~SelectionFails(calls[1])

\* The hosted zone lookup of NewRoute53Provider fails: exit, no server.
C21_Witness ==
  /\ Ran
  /\ calls[1].provider = "route53"
  /\ calls[1].zoneID # <<>>
  /\ ~calls[1].cfgErr.isErr
  /\ calls[1].lookup.err.isErr
  /\ pc = "exited"
  /\ ~started
  /\ stderr = "Error creating Route53 provider"

\* An unknown provider type: exit, no server.
C21_WitnessUnsupported ==
  /\ Ran
  /\ calls[1].provider = "cloudflare"
  /\ pc = "exited"
  /\ ~started

\* A selected provider: the server is started.
C21_WitnessStarted ==
  /\ Ran
  /\ ~SelectionFails(calls[1])
  /\ started
  /\ pc = "serving"

\* ------------------------------------------------------------------------
\* Properties of requests handled side by side
\* ------------------------------------------------------------------------

\* The server as it was started: a mock provider not yet called.
Fresh(srv) ==
  IF srv.provider.kind = "mock"
  THEN [provider |-> [srv.provider EXCEPT !.updateCalled = FALSE]]
  ELSE srv

\* What the handler does on server srv with request r when no other
\* request is there, for each answer the upstream can give.
AloneOn ==
  [ srv \in Servers |->
      [ r \in InFlightRequests |->
          { dynDNSUpdateHandler(srv, r, upstreamErr) :
              upstreamErr \in UpstreamAnswers(srv) } ] ]

\* What the handler does with request r alone on the server as it was
\* started.
Alone(r) == AloneOn[Fresh(s)][r]

\* The handlers that have answered.
Answered == { i \in DOMAIN inflight : inflight[i].pos = "Responded" }

\* The status and the body line of handler i's response.
StatusOf(i) == StatusCode(inflight[i].w)
BodyOf(i) == inflight[i].w.body

\* C22: whatever the other handlers do meanwhile, a handler's status
\* header, body and log record are those the handler gives the same request
\* when it is alone on the server, and so is what the provider returned to
\* it.
C22_AsIfAlone ==
  \A i \in Answered :
    \E h \in Alone(inflight[i].req) :
      /\ inflight[i].w = h.w
      /\ inflight[i].logs = h.logs
      /\ inflight[i].calls = h.calls
      /\ inflight[i].ret = h.ret

\* A request the provider refuses and an update of the zone, answered side
\* by side: dnserr for the one, good for the other.
C22_Witness ==
  /\ s.provider.kind = "route53"
  /\ Answered = { 1, 2 }
  /\ inflight[1].req = GoodRequest(HostOutOfZone, IP1)
  /\ BodyOf(1) = MsgDNSErr \o << LF >>
  /\ inflight[2].req = GoodRequest(HostInZone, IP1)
  /\ BodyOf(2) = MsgGood \o Space \o IP1 \o << LF >>

\* A rejected request answered while another handler waits with the
\* provider's answer.
C22_WitnessMidway ==
  /\ inflight[1].pos = "ProviderInvoked"
  /\ inflight[2].pos = "Responded"
  /\ StatusOf(2) = StatusUnauthorized

\* C23: no step of any handler, whether its UpdateRecord call succeeds or
\* fails and whatever other calls are under way, changes the zoneID or the
\* zoneName of a Route53 provider.
C23_ZoneBindingKept ==
  [][s.provider.kind = "route53"
       => /\ s'.provider.kind = "route53"
          /\ s'.provider.zoneID = s.provider.zoneID
          /\ s'.provider.zoneName = s.provider.zoneName]_vars

\* Two calls have returned side by side, one refused for its name and one
\* carried out, and the provider is bound as it was constructed.
C23_Witness ==
  /\ s.provider.kind = "route53"
  /\ s.provider.zoneName = StripDot(ServedZone)
  /\ s.provider.zoneID # <<>>
  /\ inflight[1].pos = "ProviderInvoked"
  /\ inflight[1].calls # <<>>
  /\ inflight[1].ret.isErr
  /\ inflight[1].upstream = <<>>
  /\ inflight[2].pos = "ProviderInvoked"
  /\ inflight[2].ret = Nil
  /\ records # {}

\* The request carries a Basic Authorization header with a username and a
\* password.
CarriesCredentials(r) ==
  /\ r.Authorization # <<>>
  /\ ~NotBasic(r.Authorization)
  /\ ~NotBase64(r.Authorization)
  /\ ~NoColon(r.Authorization)

\* Two requests that differ at most in the username and password they
\* carry.
SameButCredentials(r1, r2) ==
  /\ CarriesCredentials(r1)
  /\ CarriesCredentials(r2)
  /\ r1.Method = r2.Method
  /\ r1.UserAgent = r2.UserAgent
  /\ r1.Query = r2.Query

\* C24 as stated: two requests that differ only in the username and
\* password of their Basic Authorization header get the same status and
\* body, when the provider fails for neither.
C24_CredentialsIgnored ==
  \A i \in Answered : \A j \in Answered :
    /\ SameButCredentials(inflight[i].req, inflight[j].req)
    /\ ~inflight[i].ret.isErr
    /\ ~inflight[j].ret.isErr
    => /\ StatusOf(i) = StatusOf(j)
       /\ BodyOf(i) = BodyOf(j)

\* ------------------------------------------------------------------------
\* Properties of the documented client interface
\* ------------------------------------------------------------------------

\* C25 as stated: a request that passes the User-Agent, method and
\* authorization checks and names a hostname but no myip is processed as an
\* update: the provider is called once for the hostname with an address,
\* and the request is not answered as a failed one.
C25_MyipOptional ==
  /\ Responded
  /\ ChecksPass(req)
  /\ Param(req, "hostname") # <<>>
  /\ Param(req, "myip") = <<>>
  /\ hasProvider(s)
  => /\ Len(calls) = 1
     /\ calls[1].fqdn = Param(req, "hostname")
     /\ calls[1].ip # <<>>
     /\ Line # MsgDNSErr

\* ------------------------------------------------------------------------
\* Properties of the order of the checks
\* ------------------------------------------------------------------------

\* The first check request r fails, in the order User-Agent, method,
\* authorization, hostname, myip; "none" when it passes them all.
EarliestFailure(r) ==
  IF ~UserAgentPasses(r) THEN "User-Agent"
  ELSE IF ~MethodPasses(r) THEN "method"
  ELSE IF AuthorizationFails(r) THEN "authorization"
  ELSE IF Param(r, "hostname") = <<>> THEN "hostname"
  ELSE IF Param(r, "myip") = <<>> THEN "myip"
  ELSE "none"

\* The checks request r fails.
FailedChecks(r) ==
  { c \in { "User-Agent" } : ~UserAgentPasses(r) }
  \cup { c \in { "method" } : ~MethodPasses(r) }
  \cup { c \in { "authorization" } : AuthorizationFails(r) }
  \cup { c \in { "hostname" } : Param(r, "hostname") = <<>> }
  \cup { c \in { "myip" } : Param(r, "myip") = <<>> }

\* The response and the logged error message are those of the given check.
AnswerOf(check) ==
  CASE check = "User-Agent" ->
         /\ Answer(StatusBadRequest, MsgBadAgent)
         /\ logs[1]["error_message"] = TxtInvalidUserAgent
    [] check = "method" ->
         /\ Answer(StatusMethodNotAllowed, MsgBadAgent)
         /\ logs[1]["error_message"] = TxtMethodNotAllowed
    [] check = "authorization" ->
         /\ Answer(StatusUnauthorized, MsgBadAuth)
         /\ logs[1]["error_message"]
              \in { TxtMissingAuthHeader, TxtInvalidBase64,
                    TxtInvalidCredentials }
    [] check = "hostname" ->
         /\ Answer(StatusOK, MsgNotFQDN)
         /\ logs[1]["error_message"] = TxtMissingHostname
    [] check = "myip" ->
         /\ Answer(StatusOK, MsgDNSErr)
         /\ logs[1]["error_message"] = TxtMissingMyip

\* C26: a request that fails one check or more is answered with the
\* response of the earliest check it fails, in the order User-Agent,
\* method, authorization, hostname, myip; one record is logged and the
\* provider is not called.
C26_EarliestFailureWins ==
  Responded /\ EarliestFailure(req) # "none"
  => /\ Len(logs) = 1
     /\ AnswerOf(EarliestFailure(req))
     /\ calls = <<>>

\* A request that is not a GET and carries wrong credentials under a valid
\* User-Agent, answered 405 badagent.
C26_Witness ==
  /\ Responded
  /\ FailedChecks(req) = { "method", "authorization" }
  /\ ~NotBasic(req.Authorization)
  /\ ~NotBase64(req.Authorization)
  /\ ~NoColon(req.Authorization)
  /\ Answer(StatusMethodNotAllowed, MsgBadAgent)

\* A request with wrong credentials and no hostname, answered 401 badauth.
C26_WitnessNoHostname ==
  /\ Responded
  /\ FailedChecks(req) = { "authorization", "hostname" }
  /\ Answer(StatusUnauthorized, MsgBadAuth)

\* A request that fails every check, answered 400 badagent.
C26_WitnessAll ==
  /\ Responded
  /\ FailedChecks(req)
       = { "User-Agent", "method", "authorization", "hostname", "myip" }
  /\ Answer(StatusBadRequest, MsgBadAgent)

\* A request without hostname and without myip that passes the other
\* checks, answered 200 nofqdn.
C26_WitnessParams ==
  /\ Responded
  /\ FailedChecks(req) = { "hostname", "myip" }
  /\ Answer(StatusOK, MsgNotFQDN)

\* ------------------------------------------------------------------------
\* Properties of the zone across requests
\* ------------------------------------------------------------------------

\* The names of the changes issued upstream for the request.
IssuedNames ==
  UNION { { upstream[i].Changes[j].Name :
              j \in 1..Len(upstream[i].Changes) } :
          i \in 1..Len(upstream) }

\* C27: with a Route53 provider, whatever requests were served before, every
\* name a change was issued for, and every name the zone holds a record
\* for, is the zone's name or ends with "." and the zone's name, one
\* trailing dot ignored; a valid request whose hostname is outside the zone
\* is answered 200 dnserr, issues no change and leaves the zone's records
\* as they were.
C27_ChangesStayInZone ==
  s.provider.kind = "route53"
  => /\ \A name \in IssuedNames : NameInZone(name, BoundZone)
     /\ \A rr \in records : NameInZone(rr.Name, BoundZone)
     /\ Responded /\ Valid(req)
          /\ ~NameInZone(Param(req, "hostname"), BoundZone)
        => /\ Answer(StatusOK, MsgDNSErr)
           /\ upstream = <<>>
           /\ records = before

\* After an update of the zone, a valid request for a hostname outside the
\* zone: answered dnserr, the record of the earlier update still there.
C27_Witness ==
  /\ Responded
  /\ s.provider.kind = "route53"
  /\ Valid(req)
  /\ Param(req, "hostname") = HostOutOfZone
  /\ Answer(StatusOK, MsgDNSErr)
  /\ before # {}
  /\ records = before

\* A change issued for a name in the zone and refused upstream.
C27_WitnessIssued ==
  /\ Responded
  /\ s.provider.kind = "route53"
  /\ IssuedNames = { HostInZone }
  /\ ret.isErr

\* ------------------------------------------------------------------------
\* Properties of the provider call
\* ------------------------------------------------------------------------

\* C28: the handler calls the provider's UpdateRecord at most once for a
\* request; when that call fails the request is answered 200 dnserr with
\* one log record, and at most one change was issued upstream.
C28_NoRetry ==
  Responded
  => /\ Len(calls) <= 1
     /\ calls # <<>> /\ ret.isErr
        => /\ Answer(StatusOK, MsgDNSErr)
           /\ Len(logs) = 1
           /\ Len(upstream) <= 1

\* A request whose change Route53 refused: one call, one change issued,
\* dnserr.
C28_Witness ==
  /\ Responded
  /\ s.provider.kind = "route53"
  /\ Len(calls) = 1
  /\ ret = UpstreamErr
  /\ Len(upstream) = 1
  /\ Answer(StatusOK, MsgDNSErr)

\* A request for which a mock provider failed: one call, dnserr.
C28_WitnessMock ==
  /\ Responded
  /\ s.provider.kind = "mock"
  /\ Len(calls) = 1
  /\ ret.isErr
  /\ Answer(StatusOK, MsgDNSErr)

\* ------------------------------------------------------------------------
\* Properties of the change UpdateRecord issues
\* ------------------------------------------------------------------------

\* The UpdateRecord call has non-empty arguments and a name validateFQDN
\* accepts.
PassesChecks ==
  /\ pc = "updated"
  /\ calls[1].fqdn # <<>>
  /\ calls[1].ip # <<>>
  /\ ~validateFQDN(s.provider, calls[1].fqdn).isErr

\* C29: an UpdateRecord call that passes the empty-argument check and the
\* zone check issues one change batch, to the provider's zoneID, holding
\* one UPSERT of an A record whose name is the fqdn given, whose one value
\* is the ip given and whose TTL is 60; it returns what the upstream call
\* returned, nil or the error.
C29_OneUpsert ==
  PassesChecks
  => /\ upstream
          = << [ HostedZoneId |-> s.provider.zoneID,
                 Changes |-> << [ Action |-> "UPSERT",
                                  Name |-> calls[1].fqdn,
                                  Type |-> "A",
                                  TTL |-> 60,
                                  ResourceRecords |-> << calls[1].ip >> ] >> ] >>
     /\ ret = calls[1].upstreamErr

\* An update of a name in the zone that Route53 accepted.
C29_Witness ==
  /\ PassesChecks
  /\ calls[1].fqdn = HostInZone
  /\ calls[1].upstreamErr = Nil
  /\ ret = Nil
  /\ records # {}

\* An update of a name in the zone that Route53 refused.
C29_WitnessRefused ==
  /\ PassesChecks
  /\ calls[1].upstreamErr = UpstreamErr
  /\ ret = UpstreamErr
  /\ Len(upstream) = 1
  /\ records = {}

\* ------------------------------------------------------------------------
\* Properties of the fields of the log record
\* ------------------------------------------------------------------------

\* The keys of log record rec among username, fqdn and ip.
IdentityKeys(rec) == DOMAIN rec \cap { "username", "fqdn", "ip" }

\* C30: a log record holds a username only if the request passed the
\* authorization check, and an fqdn or an ip only if the handler came to
\* read the query parameters, which it does once that check has passed and
\* it stands at Authenticated; the records
\* of requests answered badagent or badauth hold none of the three.
C30_IdentityAfterAuthorization ==
  Responded
  => \A i \in 1..Len(logs) :
       /\ IdentityKeys(logs[i]) # {}
          => /\ ChecksPass(req)
             /\ \E k \in 1..Len(path) : path[k] = "Authenticated"
       /\ logs[i]["response"] \in { MsgBadAgent, MsgBadAuth }
          => IdentityKeys(logs[i]) = {}

\* A request with a username and password that are not the valid pair,
\* with hostname and myip: badauth, and none of the three in the record.
C30_Witness ==
  /\ Responded
  /\ UserAgentPasses(req)
  /\ MethodPasses(req)
  /\ ~NotBasic(req.Authorization)
  /\ ~NotBase64(req.Authorization)
  /\ ~NoColon(req.Authorization)
  /\ WrongPair(req.Authorization)
  /\ Param(req, "hostname") # <<>>
  /\ Param(req, "myip") # <<>>
  /\ Answer(StatusUnauthorized, MsgBadAuth)
  /\ IdentityKeys(logs[1]) = {}

\* A request with a bad User-Agent, valid credentials and both parameters:
\* badagent, and none of the three in the record.
C30_WitnessBadAgent ==
  /\ Responded
  /\ ~UserAgentPasses(req)
  /\ AuthorizationPasses(req)
  /\ Param(req, "hostname") # <<>>
  /\ Param(req, "myip") # <<>>
  /\ Answer(StatusBadRequest, MsgBadAgent)
  /\ IdentityKeys(logs[1]) = {}

\* An authorized request without hostname: the record holds the username
\* and the ip.
C30_WitnessAuthorized ==
  /\ Responded
  /\ ChecksPass(req)
  /\ Answer(StatusOK, MsgNotFQDN)
  /\ IdentityKeys(logs[1]) = { "username", "ip" }

====
